---- MODULE Spec2Model ----
(***************************************************************************)
(* A model of redis_func_cache: the decorator protocol of RedisFuncCache   *)
(* (make_bound / prepare / exec), the task-local Mode context variable and *)
(* its scoped overrides, and the store-side structures (an ordering        *)
(* structure and a payload map) the get/put scripts act on.                *)
(***************************************************************************)
EXTENDS Integers, Sequences, FiniteSets, TLC

\* ------------------------------------------------------------------------
\* Bounds of the model
\* ------------------------------------------------------------------------
NTasks == 2
MaxDepth == 2
MaxHist == 6
MaxMaxsize == 2
NStats == 2

Tasks == 1..NTasks
StatsObjs == 1..NStats

\* ------------------------------------------------------------------------
\* Python values, as far as the protocol can tell them apart
\* ------------------------------------------------------------------------
PyInt(n) == [k |-> "int", v |-> n]
PyTuple(n) == [k |-> "tuple", v |-> n]
PyList(n) == [k |-> "list", v |-> n]
PyStr(n) == [k |-> "str", v |-> n]
PyLock == [k |-> "lock", v |-> 0]
PySet == [k |-> "set", v |-> 0]
PyNone == [k |-> "none", v |-> 0]
\* the nil reply of a script / Python's None for `cached`
Nil == [k |-> "nil", v |-> 0]

\* json.dumps(x).encode(): a tuple is written as a JSON array, a lock or a set
\* is not JSON serializable (TypeError)
JsonSerializable(x) == x.k \notin {"lock", "set"}
JsonDumps(x) == [k |-> IF x.k = "tuple" THEN "list" ELSE x.k, v |-> x.v]
\* json.loads(b): a JSON array is read back as a list
JsonLoads(b) == [k |-> b.k, v |-> b.v]

\* RedisFuncCache.serialize / deserialize with the cache's default codec
serialize(value) == JsonDumps(value)
deserialize(data) == JsonLoads(data)

\* pickle.dumps(x): bytes that keep what x is; a lock cannot be pickled
\* (TypeError)
PyKinds == {"int", "tuple", "list", "str", "none", "set"}
PickleSerializable(x) == x.k # "lock"
PickleDumps(x) == [k |-> "pickle:" \o x.k, v |-> x.v]
\* pickle.loads(b)
PickleLoads(b) == [k |-> CHOOSE kd \in PyKinds : "pickle:" \o kd = b.k, v |-> b.v]

\* RedisFuncCache.__serializers__[name]: the serialize half and the
\* deserialize half of a named codec
Dumps(f, value) == IF f = "pickle" THEN PickleDumps(value) ELSE JsonDumps(value)
Loads(f, data) == IF f = "pickle" THEN PickleLoads(data) ELSE JsonLoads(data)
Dumpable(f, value) == IF f = "pickle" THEN PickleSerializable(value) ELSE JsonSerializable(value)

\* the function's serializer not handed on to serialize()
serialize_f_default(value, f) == [by |-> "default", arg |-> value, out |-> serialize(value)]
\* RedisFuncCache.serialize(value, f) / deserialize(data, f), f the half of
\* the codec given to decorate() ("" for None): the half that was called, its
\* argument and what it returned
serialize_f(value, f) ==
    IF f # ""
    THEN [by |-> f, arg |-> value, out |-> Dumps(f, value)]
    ELSE [by |-> "default", arg |-> value, out |-> serialize(value)]
deserialize_f(data, f) ==
    IF f # ""
    THEN [by |-> f, arg |-> data, out |-> Loads(f, data)]
    ELSE [by |-> "default", arg |-> data, out |-> deserialize(data)]

\* ------------------------------------------------------------------------
\* Mode
\* ------------------------------------------------------------------------
Mode(r, w, e) == [read |-> r, write |-> w, exec |-> e]
DefaultMode == Mode(TRUE, TRUE, TRUE)
AllModes == [read : BOOLEAN, write : BOOLEAN, exec : BOOLEAN]

\* ------------------------------------------------------------------------
\* The decorated functions of the application with the options given to
\* decorate(): echo and the failing function of tests/test_basic.py, the
\* get_data functions of tests/test_excludes.py, and get_data_pos, whose
\* parameters all have defaults so that a call may leave the leading one out
\* ------------------------------------------------------------------------
NoDefault == [k |-> "nodefault", v |-> 0]

Decor(d) ==
    CASE d = "echo" ->
           [fn |-> "echo", params |-> <<"x">>, defaults |-> <<NoDefault>>,
            excludes |-> {}, excludes_positional |-> {}]
      [] d = "aecho" ->
           [fn |-> "aecho", params |-> <<"x">>, defaults |-> <<NoDefault>>,
            excludes |-> {}, excludes_positional |-> {}]
      [] d = "echo0" ->
           [fn |-> "echo0", params |-> <<"x">>, defaults |-> <<NoDefault>>,
            excludes |-> {}, excludes_positional |-> {}]
      [] d = "fail" ->
           [fn |-> "fail", params |-> <<"x">>, defaults |-> <<NoDefault>>,
            excludes |-> {}, excludes_positional |-> {}]
      [] d = "f" ->
           [fn |-> "f", params |-> <<"a", "b">>, defaults |-> <<NoDefault, NoDefault>>,
            excludes |-> {}, excludes_positional |-> {}]
      [] d = "get_data" ->
           [fn |-> "get_data", params |-> <<"pool", "book_id">>,
            defaults |-> <<NoDefault, NoDefault>>,
            excludes |-> {"pool"}, excludes_positional |-> {}]
      [] d = "get_pool" ->
           [fn |-> "get_pool", params |-> <<"pool", "book_id">>,
            defaults |-> <<NoDefault, NoDefault>>,
            excludes |-> {"pool"}, excludes_positional |-> {}]
      [] d = "get_data_pos" ->
           [fn |-> "get_data_pos", params |-> <<"pool", "book_id">>,
            defaults |-> <<PyNone, PyInt(0)>>,
            excludes |-> {}, excludes_positional |-> {0}]
      [] d = "get_data_both" ->
           [fn |-> "get_data_both", params |-> <<"pool", "book_id", "config">>,
            defaults |-> <<NoDefault, NoDefault, PyNone>>,
            excludes |-> {"config"}, excludes_positional |-> {0}]

\* inspect.iscoroutinefunction(user_func): aecho is declared `async def`
IsCoroutine(d) == d = "aecho"
\* the serializer= option given to decorate() for the function: echo0 is
\* decorated with serializer="pickle", the others with none
SerializerOf(d) == IF d = "echo0" THEN "pickle" ELSE ""

\* the objects the application hands to decorate(): a function, a coroutine
\* function, and an object that is not callable
Decorable == {"echo", "aecho", "echo0", "notcallable"}
IsCallable(d) == d # "notcallable"

\* RedisFuncCache.decorate applied to user_func on a cache with client cl:
\* the wrapper it returns, or the TypeError it raises
decorate(cl, d) ==
    IF ~IsCallable(d) THEN "TypeError"
    ELSE IF IsCoroutine(d) THEN "awrapper"
    ELSE "wrapper"

ParamIndex(dc, name) == CHOOSE i \in 1..Len(dc.params) : dc.params[i] = name

\* inspect.Signature.bind(*args, **kwds).arguments: the supplied parameters
\* only (no defaults applied), as (name, value) items in declaration order
Bind(dc, args, kwds) ==
    LET P == dc.params
        kwval(name) == kwds[CHOOSE j \in 1..Len(kwds) : kwds[j][1] = name][2]
        supplied(i) == i <= Len(args) \/ \E j \in 1..Len(kwds) : kwds[j][1] = P[i]
        val(i) == IF i <= Len(args) THEN args[i] ELSE kwval(P[i])
        idx == SelectSeq([i \in 1..Len(P) |-> i], supplied)
    IN  [j \in 1..Len(idx) |-> <<P[idx[j]], val(idx[j])>>]

\* a call Python accepts: positionals fill a prefix of the parameters, each
\* keyword names a later parameter once, every parameter without a default
\* is supplied
ValidCall(dc, args, kwds) ==
    /\ Len(args) <= Len(dc.params)
    /\ \A j \in 1..Len(kwds) :
          /\ \E i \in (Len(args) + 1)..Len(dc.params) : dc.params[i] = kwds[j][1]
          /\ \A j2 \in 1..Len(kwds) : kwds[j2][1] = kwds[j][1] => j2 = j
    /\ \A i \in 1..Len(dc.params) :
          dc.defaults[i] = NoDefault =>
              (i <= Len(args) \/ \E j \in 1..Len(kwds) : kwds[j][1] = dc.params[i])

\* BoundArguments.args / BoundArguments.kwargs of the (filtered) arguments:
\* args stops at the first parameter that is absent, everything after it
\* that is present goes to kwargs, in declaration order
HasArg(arguments, name) == \E j \in 1..Len(arguments) : arguments[j][1] = name
ArgOf(arguments, name) ==
    arguments[CHOOSE j \in 1..Len(arguments) : arguments[j][1] = name][2]
FirstMissing(dc, arguments) ==
    IF \A i \in 1..Len(dc.params) : HasArg(arguments, dc.params[i])
    THEN Len(dc.params) + 1
    ELSE CHOOSE i \in 1..Len(dc.params) :
            /\ ~HasArg(arguments, dc.params[i])
            /\ \A i2 \in 1..(i - 1) : HasArg(arguments, dc.params[i2])
BoundArgs(dc, arguments) ==
    [i \in 1..(FirstMissing(dc, arguments) - 1) |-> ArgOf(arguments, dc.params[i])]
BoundKwargs(dc, arguments) ==
    LET fm == FirstMissing(dc, arguments)
        later(item) == ParamIndex(dc, item[1]) > fm
    IN  SelectSeq(arguments, later)

\* RedisFuncCache.make_bound: None when nothing is excluded, else the bound
\* arguments with the items at the excluded indices, then the excluded
\* names, removed
NoBound == [bound |-> FALSE, arguments |-> <<>>]
make_bound(dc, user_args, user_kwds) ==
    IF dc.excludes = {} /\ dc.excludes_positional = {}
    THEN NoBound
    ELSE LET a0 == Bind(dc, user_args, user_kwds)
             keepidx == SelectSeq([i \in 1..Len(a0) |-> i],
                                  LAMBDA i : (i - 1) \notin dc.excludes_positional)
             a1 == IF dc.excludes_positional # {}
                   THEN [j \in 1..Len(keepidx) |-> a0[keepidx[j]]]
                   ELSE a0
             a2 == IF dc.excludes # {}
                   THEN SelectSeq(a1, LAMBDA item : item[1] \notin dc.excludes)
                   ELSE a1
         IN  [bound |-> TRUE, arguments |-> a2]

\* AbstractHashMixin.calc_hash: a digest over the function's identity, the
\* serialized positional arguments and the serialized keyword arguments; the
\* digest is modelled by the triple it is computed from
\* the arguments left out of the digest
calc_hash_fn_only(fn, args, kwds) == [fn |-> fn, args |-> <<>>, kwds |-> <<>>]
calc_hash(fn, args, kwds) == [fn |-> fn, args |-> args, kwds |-> kwds]
NoHash == [fn |-> "", args |-> <<>>, kwds |-> <<>>]
\* conf.serializer(args), conf.serializer(kwds) with pickle.dumps: an
\* argument that cannot be pickled makes calc_hash raise TypeError
CanHash(h) ==
    /\ \A i \in 1..Len(h.args) : PickleSerializable(h.args[i])
    /\ \A i \in 1..Len(h.kwds) : PickleSerializable(h.kwds[i][2])

\* BaseSinglePolicy.calc_keys: one key pair per cache, whatever the function
CachePrefix == "func-cache:"
CacheName == "test"
calc_keys(policyKey) ==
    LET k == <<CachePrefix, CacheName, ":", policyKey>>
    IN  <<k \o <<":0">>, k \o <<":1">>>>

\* -- the key pairs of the four policy base classes. A key is a sequence of
\*    pieces of text; "{" and "}" are pieces of their own wherever they occur --
DefaultPrefix == <<CachePrefix>>
Bases == {"single", "cluster", "multiple", "cluster-multiple"}
\* __key__ of LruPolicy, LruClusterPolicy, LruMultiplePolicy,
\* LruClusterMultiplePolicy
KeyOf(b) ==
    CASE b = "single" -> "lru"
      [] b = "cluster" -> "lru-c"
      [] b = "multiple" -> "lru-m"
      [] b = "cluster-multiple" -> "lru-cm"

\* a function object: __module__, __qualname__, __code__.co_code and
\* __code__.co_consts
Fn(m, q, code, consts) == [module |-> m, qualname |-> q, co_code |-> code, co_consts |-> consts]
\* utils.get_callable_bytecode
get_callable_bytecode(f) == f.co_code
\* hashlib.md5(fullname) updated with the bytecode, then b64digest: one piece
\* of text (letters, digits, + and /), different for different inputs
Checksum(fullname, bytecode) == "md5(" \o fullname \o "|" \o bytecode \o ")"

\* BaseSinglePolicy.calc_keys on a policy whose _keys is memo: the pair it
\* returns and the _keys it leaves
BaseSinglePolicy_calc_keys_fresh(memo, pfx, nm, b) ==
    LET k == pfx \o nm \o <<":", KeyOf(b)>>
        ks == <<k \o <<":", "0">>, k \o <<":", "1">>>>
    IN  [keys |-> ks, memo |-> ks]
BaseSinglePolicy_calc_keys(memo, pfx, nm, b) ==
    IF memo = <<>>
    THEN LET k == pfx \o nm \o <<":", KeyOf(b)>>
             ks == <<k \o <<":", "0">>, k \o <<":", "1">>>>
         IN  [keys |-> ks, memo |-> ks]
    ELSE [keys |-> memo, memo |-> memo]
\* BaseClusterSinglePolicy.calc_keys
BaseClusterSinglePolicy_calc_keys(memo, pfx, nm, b) ==
    IF memo = <<>>
    THEN LET k == pfx \o <<"{">> \o nm \o <<":", KeyOf(b), "}">>
             ks == <<k \o <<":", "0">>, k \o <<":", "1">>>>
         IN  [keys |-> ks, memo |-> ks]
    ELSE [keys |-> memo, memo |-> memo]
\* BaseMultiplePolicy.calc_keys
BaseMultiplePolicy_calc_keys(memo, pfx, nm, b, f) ==
    LET fullname == f.module \o ":" \o f.qualname
        checksum == Checksum(fullname, get_callable_bytecode(f))
        k == pfx \o nm \o <<":", KeyOf(b), ":", fullname, "#", checksum>>
    IN  [keys |-> <<k \o <<":", "0">>, k \o <<":", "1">>>>, memo |-> memo]
\* BaseClusterMultiplePolicy.calc_keys
BaseClusterMultiplePolicy_calc_keys(memo, pfx, nm, b, f) ==
    LET fullname == f.module \o ":" \o f.qualname
        checksum == Checksum(fullname, get_callable_bytecode(f))
        k == pfx \o nm \o <<":", KeyOf(b), ":", fullname, "#", "{", checksum, "}">>
    IN  [keys |-> <<k \o <<":", "0">>, k \o <<":", "1">>>>, memo |-> memo]
\* policy.calc_keys(f, args, kwds) by the policy's base class
PolicyCalcKeys(memo, pfx, nm, b, f) ==
    CASE b = "single" -> BaseSinglePolicy_calc_keys(memo, pfx, nm, b)
      [] b = "cluster" -> BaseClusterSinglePolicy_calc_keys(memo, pfx, nm, b)
      [] b = "multiple" -> BaseMultiplePolicy_calc_keys(memo, pfx, nm, b, f)
      [] b = "cluster-multiple" -> BaseClusterMultiplePolicy_calc_keys(memo, pfx, nm, b, f)

\* the part of a key a redis cluster hashes to find the key's slot: what is
\* between the first "{" and the first "}" after it when that is not empty,
\* the whole key otherwise
HashTag(key) ==
    LET opens == {i \in 1..Len(key) : key[i] = "{"}
    IN  IF opens = {} THEN key
        ELSE LET i == CHOOSE x \in opens : \A y \in opens : x <= y
                 closes == {j \in (i + 1)..Len(key) : key[j] = "}"}
             IN  IF closes = {} THEN key
                 ELSE LET j == CHOOSE x \in closes : \A y \in closes : x <= y
                      IN  IF j = i + 1 THEN key ELSE SubSeq(key, i + 1, j - 1)

\* the redis server's keys: a function from key to the structure held there
NoKeys == [k \in {} |-> <<>>]
\* what is held at a key, `empty` when the key does not exist
Held(ks, k, empty) == IF k \in DOMAIN ks THEN ks[k] ELSE empty
\* DEL k1 k2 ...: the keys left
Del(ks, dead) == [k \in DOMAIN ks \ dead |-> ks[k]]
\* the keys after a script has left ord and hm in the pair; redis keeps no
\* empty sorted set or hash
Stored(ks, pair, ord, hm) ==
    LET live == (DOMAIN ks \ {pair[1], pair[2]})
                    \cup (IF ord = <<>> THEN {} ELSE {pair[1]})
                    \cup (IF DOMAIN hm = {} THEN {} ELSE {pair[2]})
    IN  [k \in live |-> IF k = pair[1] THEN ord ELSE IF k = pair[2] THEN hm ELSE ks[k]]

\* BaseSinglePolicy.purge with only the ordering key deleted
BaseSinglePolicy_purge_first_key(ks, pair) ==
    [keys |-> Del(ks, {pair[1]}), ret |-> Cardinality(DOMAIN ks \cap {pair[1]})]
\* BaseSinglePolicy.purge: client.delete(*self.calc_keys())
BaseSinglePolicy_purge(ks, pair) ==
    [keys |-> Del(ks, {pair[1], pair[2]}),
     ret |-> Cardinality(DOMAIN ks \cap {pair[1], pair[2]})]
\* KEYS pat for a pattern `lit*` with no other wildcard
Matching(ks, lit) ==
    {k \in DOMAIN ks : Len(k) >= Len(lit) /\ SubSeq(k, 1, Len(lit)) = lit}
\* BaseMultiplePolicy.purge: delete the keys matching prefix name:__key__:*
BaseMultiplePolicy_purge(ks, pfx, nm, b) ==
    LET pat == pfx \o nm \o <<":", KeyOf(b), ":">>
        keys == Matching(ks, pat)
    IN  IF keys # {}
        THEN [keys |-> Del(ks, keys), ret |-> Cardinality(keys)]
        ELSE [keys |-> ks, ret |-> 0]
\* BaseSinglePolicy.get_size: client.hlen(self.calc_keys()[1])
get_size(ks, pair) == Cardinality(DOMAIN Held(ks, pair[2], <<>>))

\* str(value).strip() of the name and prefix setters
RECURSIVE Strip(_)
Strip(v) ==
    IF v = <<>> THEN v
    ELSE IF Head(v) = " " THEN Strip(Tail(v))
    ELSE IF v[Len(v)] = " " THEN Strip(SubSeq(v, 1, Len(v) - 1))
    ELSE v

\* RedisFuncCache.prepare: hash the filtered arguments when a bound is given,
\* the raw arguments otherwise
prepare(dc, user_args, user_kwds, bound) ==
    IF ~bound.bound
    THEN calc_hash(dc.fn, user_args, user_kwds)
    ELSE calc_hash(dc.fn, BoundArgs(dc, bound.arguments), BoundKwargs(dc, bound.arguments))

\* the value a parameter has inside the function body
ParamVal(dc, args, kwds, name) ==
    LET a == Bind(dc, args, kwds)
    IN  IF HasArg(a, name) THEN ArgOf(a, name) ELSE dc.defaults[ParamIndex(dc, name)]

\* the wrapped functions: echo returns its argument, fail raises ValueError,
\* f returns its first parameter, get_pool the excluded pool (a result that
\* differs between calls of one signature), get_data f"book_{book_id}"
FnRaises(dc) == dc.fn = "fail"
FnResult(dc, args, kwds) ==
    IF dc.fn \in {"echo", "aecho", "echo0", "fail"}
    THEN ParamVal(dc, args, kwds, "x")
    ELSE IF dc.fn = "f"
    THEN ParamVal(dc, args, kwds, "a")
    ELSE IF dc.fn = "get_pool"
    THEN ParamVal(dc, args, kwds, "pool")
    ELSE PyStr(ParamVal(dc, args, kwds, "book_id").v)

\* ------------------------------------------------------------------------
\* The store-side structures and the two atomic scripts
\* ------------------------------------------------------------------------
EmptyMap == [h \in {} |-> Nil]
Without(seq, h) == SelectSeq(seq, LAMBDA x : x # h)

\* the policy classes: __key__, the script pair named by the scripts mixin
\* (MruScriptsMixin = LruScriptsMixin) and calc_ext_args
Policies == {"lru", "fifo", "mru"}
\* FifoPolicy given the LRU scripts mixin
ScriptsOf_lru(pol) ==
    CASE pol = "lru" -> <<"lru_get.lua", "lru_put.lua">>
      [] pol = "fifo" -> <<"lru_get.lua", "lru_put.lua">>
      [] pol = "mru" -> <<"lru_get.lua", "lru_put.lua">>
      [] pol = "mru-iter" -> <<"lru_get.lua", "lru_put.lua">>
\* LruPolicy given the FIFO scripts mixin
ScriptsOf_fifo(pol) ==
    CASE pol = "lru" -> <<"fifo_get.lua", "fifo_put.lua">>
      [] pol = "fifo" -> <<"fifo_get.lua", "fifo_put.lua">>
      [] pol = "mru" -> <<"lru_get.lua", "lru_put.lua">>
      [] pol = "mru-iter" -> <<"lru_get.lua", "lru_put.lua">>
ScriptsOf(pol) ==
    CASE pol = "lru" -> <<"lru_get.lua", "lru_put.lua">>
      [] pol = "fifo" -> <<"fifo_get.lua", "fifo_put.lua">>
      [] pol = "mru" -> <<"lru_get.lua", "lru_put.lua">>
      [] pol = "mru-iter" -> <<"lru_get.lua", "lru_put.lua">>
calc_ext_args(pol) == IF pol \in {"mru", "mru-iter"} THEN <<"mru">> ELSE <<>>
\* the object calc_ext_args returns, an Optional[Iterable]: None from the
\* base class, a tuple from the MRU mixin, and from "mru-iter", a policy
\* made of the MRU scripts with calc_ext_args overridden as the base class
\* allows, an iterator over the same token; left is what iterating it gives
ExtArgsKind(pol) ==
    IF pol = "mru-iter" THEN "iterator" ELSE IF pol = "mru" THEN "tuple" ELSE "none"
ExtArgsObject(pol) ==
    [kind |-> ExtArgsKind(pol), items |-> calc_ext_args(pol), left |-> calc_ext_args(pol)]

\* the ordering structure is kept least recently ranked first; the victim of
\* an eviction is its head, or its last element under the 'mru' token
Touch(ord, h) == Append(Without(ord, h), h)
IsMru(ext_args) == Len(ext_args) > 0 /\ ext_args[1] = "mru"
Victim(ord, ext_args) == IF IsMru(ext_args) THEN ord[Len(ord)] ELSE Head(ord)

\* get-script: the stored value on a hit, nil on a miss; the LRU script
\* ranks the entry it was asked for as the most recent
GetScript(script, ord, hm, h, ext_args) ==
    IF h \in DOMAIN hm
    THEN [ret |-> hm[h],
          order |-> IF script = "lru_get.lua" THEN Touch(ord, h) ELSE ord]
    ELSE [ret |-> Nil, order |-> ord]

\* put-script: overwrite the payload and the ordering metadata of an entry
\* that exists; otherwise evict exactly one entry when the payload map is
\* full, then insert
PutScript(script, ord, hm, msize, h, v, ext_args) ==
    IF h \in DOMAIN hm
    THEN [order |-> Touch(ord, h), hmap |-> [hm EXCEPT ![h] = v]]
    ELSE LET full == Len(ord) >= msize
             ord1 == IF full THEN Without(ord, Victim(ord, ext_args)) ELSE ord
             hm1 == IF full
                    THEN [x \in DOMAIN hm \ {Victim(ord, ext_args)} |-> hm[x]]
                    ELSE hm
         IN  [order |-> Append(ord1, h), hmap |-> (h :> v) @@ hm1]

\* ------------------------------------------------------------------------
\* State
\* ------------------------------------------------------------------------
VARIABLES
    maxsize,    \* RedisFuncCache.maxsize
    policy,     \* the policy's __key__
    order,      \* the ordering structure: signatures, next victim first
    hmap,       \* the payload map: signature -> serialized return value
    pc,         \* per task: where its wrapper call stands
    call,       \* per task: the locals of the wrapper call in progress
    ctxMode,    \* per task: the value of the _mode context variable
    tokens,     \* per task: the tokens of the scopes it is in, outermost first
    scopes,     \* per task: what each open scope saw on entry (history)
    lastExit,   \* per task: the scope it left last, until it enters one (history)
    covered,    \* signatures hit or put since the store was last emptied (history)
    hist,       \* completed calls in order (history)
    track,      \* which of the history variables this run records
    stats,      \* the Stats objects: object -> its six counters
    ctxStats,   \* per task: the value of the _stats context variable (0: None)
    statTokens, \* per task: the tokens of the stats scopes it is in
    client,     \* the kind of the cache's redis client: "sync" or "async"
    decorated,  \* what decorate() gave for each object it was applied to
    conn,       \* the connection the cache's client factory returns now
    scriptConn, \* the connection policy._lua_scripts was registered on; 0: None
    policyInst, \* cache._policy_instance: 0 for None, else the instance
    nCreated,   \* how many policy instances the cache has created
    polPc,      \* per thread: where it stands in the `policy` property
    polGot,     \* per thread: the instances its accesses to cache.policy returned
    cachePrefix, \* cache.prefix, as a sequence of pieces of text
    cacheName,  \* cache.name, as a sequence of pieces of text
    policyBase, \* the base class of the cache's policy class
    keysMemo,   \* policy._keys of a single-pair policy; <<>> for None
    keyspace,   \* the keys of the redis server other than the pair order/hmap
    ttl,        \* cache.ttl, in seconds
    updateTtl,  \* cache.update_ttl
    cacheSerializer, \* cache.serializer: the name of the default codec
    source,     \* what the constructor got as client: "instance", "factory", "none"
    built,      \* whether the constructor has returned the cache
    now,        \* the time, in seconds
    expiry      \* the time the key pair expires at; 0 while it does not exist

\* the fields of the cache object that no wrapper call assigns
polVars == <<policyInst, nCreated, polPc, polGot>>
keyVars == <<cachePrefix, cacheName, policyBase, keysMemo, keyspace>>
cfgVars == <<ttl, updateTtl, source, built, now, expiry, cacheSerializer>>
cacheVars == <<client, decorated, conn, scriptConn, polVars, cfgVars, keyVars>>

vars == <<maxsize, policy, order, hmap, pc, call, ctxMode, tokens, scopes, lastExit,
          covered, hist, track, stats, ctxStats, statTokens, cacheVars>>

NoOut == [kind |-> "", val |-> Nil]
Return(v) == [kind |-> "return", val |-> v]
Raise(e) == [kind |-> "raise", val |-> [k |-> e, v |-> 0]]

\* what the payload map holds for a signature, nil when it holds nothing
StoredAt(hm, h) == IF h \in DOMAIN hm THEN hm[h] ELSE Nil

\* RedisFuncCache.Stats(): six counters at zero
ZeroStats == [count |-> 0, read |-> 0, write |-> 0, exec |-> 0, miss |-> 0, hit |-> 0]
Counters == {"count", "read", "write", "exec", "miss", "hit"}

NoExit == [how |-> "", kind |-> "", prior |-> DefaultMode]

NoCall ==
    [d |-> "", args |-> <<>>, kwds |-> <<>>, mode |-> DefaultMode,
     bound |-> NoBound, keys |-> <<>>, hash |-> NoHash, ext_args |-> <<>>,
     cached |-> Nil, retval |-> Nil,
     nGet |-> 0, nExec |-> 0, nPut |-> 0,
     fnArgs |-> <<>>, fnKwds |-> <<>>, putVal |-> Nil,
     storeVal |-> Nil, out |-> NoOut,
     stats |-> 0, incs |-> <<>>, reg |-> -1, stats0 |-> ZeroStats,
     putAfter |-> {}]

InProgress(t) == pc[t] \in {"get", "exec", "put", "done"}

\* ContextVar.get(): the value set in this task's context, else the default
ModeGet(t) == IF ctxMode[t] = <<>> THEN DefaultMode ELSE ctxMode[t][1]
\* RedisFuncCache.get_mode(): a copy of it
get_mode(t) == [read |-> ModeGet(t).read, write |-> ModeGet(t).write, exec |-> ModeGet(t).exec]

\* ------------------------------------------------------------------------
\* The wrapper call: decorate().wrapper and RedisFuncCache.exec
\* ------------------------------------------------------------------------
\* the counters exec() increments, each by `if stats: stats.<counter> += 1`,
\* right after reading the context variables, after the get, after the
\* function has returned and after the put has returned
\* the call not counted
StatsAtEntry_none(st) == <<>>
StatsAtEntry(st) == IF st = 0 THEN <<>> ELSE <<"count">>
\* the hit and miss counters taken for each other
StatsAfterGet_swapped(st, cached) ==
    IF st = 0 THEN <<>> ELSE <<"read", IF cached = Nil THEN "hit" ELSE "miss">>
StatsAfterGet(st, cached) ==
    IF st = 0 THEN <<>> ELSE <<"read", IF cached = Nil THEN "miss" ELSE "hit">>
\* the execution counted although the function raised
StatsAfterExec_counts_raise(st, raised) == IF st = 0 THEN <<>> ELSE <<"exec">>
StatsAfterExec(st, raised) == IF st = 0 \/ raised THEN <<>> ELSE <<"exec">>
StatsAfterPut(st) == IF st = 0 THEN <<>> ELSE <<"write">>

\* stats.<counter> += 1 is a load of the attribute followed by a store of
\* the sum; nothing keeps another thread from running between the two
StatLoad(t) ==
    /\ InProgress(t)
    /\ call[t].incs # <<>> /\ call[t].reg = -1
    /\ call' = [call EXCEPT ![t].reg = stats[call[t].stats][Head(call[t].incs)]]
    /\ UNCHANGED <<cacheVars, maxsize, policy, order, hmap, pc, ctxMode, tokens, scopes, lastExit,
                   covered, hist, track, stats, ctxStats, statTokens>>

StatStore(t) ==
    /\ InProgress(t)
    /\ call[t].incs # <<>> /\ call[t].reg # -1
    /\ stats' = [stats EXCEPT ![call[t].stats][Head(call[t].incs)] = call[t].reg + 1]
    /\ call' = [call EXCEPT ![t].reg = -1, ![t].incs = Tail(@)]
    /\ UNCHANGED <<cacheVars, maxsize, policy, order, hmap, pc, ctxMode, tokens, scopes, lastExit,
                   covered, hist, track, ctxStats, statTokens>>

\* wrapper entry up to the branch on mode.read
Call(t, d, args, kwds) ==
    /\ pc[t] = "idle"
    /\ ValidCall(Decor(d), args, kwds)
    /\ LET dc == Decor(d)
           mode == ModeGet(t)
           bound == make_bound(dc, args, kwds)
       IN  /\ call' = [call EXCEPT ![t] =
                  [NoCall EXCEPT !.d = d, !.args = args, !.kwds = kwds,
                                 !.mode = mode, !.bound = bound,
                                 !.keys = calc_keys(policy),
                                 !.hash = prepare(dc, args, kwds, bound),
                                 !.ext_args = calc_ext_args(policy),
                                 !.stats = ctxStats[t],
                                 !.incs = StatsAtEntry(ctxStats[t]),
                                 !.stats0 = IF ctxStats[t] = 0 THEN ZeroStats
                                            ELSE stats[ctxStats[t]]]]
           /\ pc' = [pc EXCEPT ![t] = IF mode.read THEN "get" ELSE "exec"]
    /\ UNCHANGED <<cacheVars, maxsize, policy, order, hmap, ctxMode, tokens, scopes, lastExit, covered, hist, track, stats, ctxStats, statTokens>>

\* RedisFuncCache.get: the script is given the signature and the policy's
\* extra arguments
get(script, hash_value, ext_args) == GetScript(script, order, hmap, hash_value, ext_args)

\* the branch on `cached is not None` left out
AfterGet_always_exec(cached) == "exec"
\* what follows the get step: a hit returns at once
AfterGet(cached) == IF cached = Nil THEN "exec" ELSE "done"

\* cached = self.get(...); a hit deserializes and returns
GetStep(t) ==
    /\ pc[t] = "get"
    /\ call[t].incs = <<>>
    /\ LET c == call[t]
           r == get(ScriptsOf(policy)[1], c.hash, c.ext_args)
           nxt == AfterGet(r.ret)
       IN  /\ order' = r.order
           /\ covered' = IF r.ret # Nil /\ "covered" \in track THEN covered \cup {c.hash} ELSE covered
           /\ call' = [call EXCEPT ![t] =
                  [c EXCEPT !.cached = r.ret, !.nGet = @ + 1,
                            !.storeVal = StoredAt(hmap, c.hash),
                            !.incs = StatsAfterGet(c.stats, r.ret),
                            !.out = IF nxt = "done" THEN Return(deserialize(r.ret)) ELSE @]]
           /\ pc' = [pc EXCEPT ![t] = nxt]
    /\ UNCHANGED <<cacheVars, maxsize, policy, hmap, ctxMode, tokens, scopes, lastExit, hist, track, stats, ctxStats, statTokens>>

\* the mode.exec check left out / inverted into an unconditional failure
MayExecute_always(mode) == TRUE
MayExecute_never(mode) == FALSE
\* if not mode.exec: raise CacheMissError(...)
MayExecute(mode) == mode.exec

\* user_function(*user_args, **user_kwds): the arguments the function gets
FnCallArgs(c) == <<c.args, c.kwds>>

\* the `if mode.write` check left out
AfterExec_always_put(mode, raised) == IF raised THEN "done" ELSE "put"
\* the function's exception swallowed and its outcome put like a result
AfterExec_caches_failure(mode, raised) == IF mode.write THEN "put" ELSE "done"
\* what follows the function: its exception propagates; its result is put
\* when the mode allows writing
AfterExec(mode, raised) ==
    IF raised THEN "done" ELSE IF mode.write THEN "put" ELSE "done"

\* the mode.exec check and the call of the wrapped function
ExecStep(t) ==
    /\ pc[t] = "exec"
    /\ call[t].incs = <<>>
    /\ LET c == call[t]
           dc == Decor(c.d)
           fa == FnCallArgs(c)
           raised == FnRaises(dc)
           rv == FnResult(dc, fa[1], fa[2])
           nxt == AfterExec(c.mode, raised)
       IN  IF ~MayExecute(c.mode)
           THEN /\ call' = [call EXCEPT ![t] =
                       [c EXCEPT !.out = Raise("CacheMissError"),
                                 !.storeVal = IF c.mode.read THEN @ ELSE StoredAt(hmap, c.hash)]]
                /\ pc' = [pc EXCEPT ![t] = "done"]
           ELSE /\ call' = [call EXCEPT ![t] =
                       [c EXCEPT !.nExec = @ + 1, !.fnArgs = fa[1], !.fnKwds = fa[2],
                                 !.incs = StatsAfterExec(c.stats, raised),
                                 !.retval = IF nxt = "put" \/ ~raised THEN rv ELSE @,
                                 !.out = IF nxt = "put" THEN @
                                         ELSE IF raised THEN Raise("ValueError")
                                         ELSE Return(rv)]]
                /\ pc' = [pc EXCEPT ![t] = nxt]
    /\ UNCHANGED <<cacheVars, maxsize, policy, order, hmap, ctxMode, tokens, scopes, lastExit, covered, hist, track, stats, ctxStats, statTokens>>

\* an entry that exists is left as it is
put_keep_first(script, hash_value, value, msize, ext_args) ==
    IF hash_value \in DOMAIN hmap
    THEN [order |-> order, hmap |-> hmap]
    ELSE PutScript(script, order, hmap, msize, hash_value, value, ext_args)
\* maxsize not enforced on the way to the script
put_unbounded(script, hash_value, value, msize, ext_args) ==
    PutScript(script, order, hmap, msize + 1, hash_value, value, ext_args)
\* RedisFuncCache.put: the script is given maxsize, the signature, the value
\* and the policy's extra arguments
put(script, hash_value, value, msize, ext_args) ==
    PutScript(script, order, hmap, msize, hash_value, value, ext_args)

\* the stored bytes read back instead of the function's result
PutReturn_from_store(c) == deserialize(serialize(c.retval))
\* return user_retval: the function's own result
PutReturn(c) == c.retval

\* ------------------------------------------------------------------------
\* A whole wrapper call made with no other call in between, as the record of
\* what it did: the script and function invocations in order, the outcome,
\* the counters it bumped and the store it leaves
\* ------------------------------------------------------------------------
Run(gets, execs, puts, out, incs, ord, hm) ==
    [gets |-> gets, execs |-> execs, puts |-> puts, out |-> out, incs |-> incs,
     order |-> ord, hmap |-> hm, sers |-> <<>>, desers |-> <<>>]
\* the record of a call that called the codec
Codec(run, sers, desers) == [run EXCEPT !.sers = sers, !.desers = desers]

\* client.register_script(...): Script objects from a synchronous client,
\* AsyncScript objects from an asynchronous one
ScriptKind(cl) == cl

\* the isinstance check of the script pair left out of exec
SyncScripts_unchecked(sk) == TRUE
\* isinstance(script_0, Script) and isinstance(script_1, Script)
SyncScripts(sk) == sk = "sync"
\* isinstance(script_0, AsyncScript) and isinstance(script_1, AsyncScript)
AsyncScripts(sk) == sk = "async"

\* RedisFuncCache.exec from its first line to its return or raise; sk is the
\* kind of the policy's script pair, m the mode, so the Stats object of the
\* scope (0: none), ord and hm the store the scripts act on
ExecRun(sk, m, so, ord, hm, d, args, kwds) ==
    LET dc == Decor(d)
        bound == make_bound(dc, args, kwds)
        h == prepare(dc, args, kwds, bound)
        ext == calc_ext_args(policy)
        scr == ScriptsOf(policy)
        g == IF m.read THEN GetScript(scr[1], ord, hm, h, ext)
             ELSE [ret |-> Nil, order |-> ord]
        gets == IF m.read THEN <<h>> ELSE <<>>
        i1 == StatsAtEntry(so) \o (IF m.read THEN StatsAfterGet(so, g.ret) ELSE <<>>)
        fa == FnCallArgs([args |-> args, kwds |-> kwds])
        raised == FnRaises(dc)
        rv == FnResult(dc, fa[1], fa[2])
        i2 == i1 \o StatsAfterExec(so, raised)
        sf == SerializerOf(d)
        ser == serialize_f(rv, sf)
        des == deserialize_f(g.ret, sf)
    IN  IF ~SyncScripts(sk)
        THEN Run(<<>>, <<>>, <<>>, Raise("TypeError"), <<>>, ord, hm)
        ELSE IF ~CanHash(h)
        THEN Run(<<>>, <<>>, <<>>, Raise("TypeError"), StatsAtEntry(so), ord, hm)
        ELSE IF m.read /\ AfterGet(g.ret) = "done"
        THEN Codec(Run(gets, <<>>, <<>>, Return(des.out), i1, g.order, hm), <<>>, <<des>>)
        ELSE IF ~MayExecute(m)
        THEN Run(gets, <<>>, <<>>, Raise("CacheMissError"), i1, g.order, hm)
        ELSE IF AfterExec(m, raised) = "done"
        THEN Run(gets, <<fa>>, <<>>,
                 IF raised THEN Raise("ValueError") ELSE Return(rv), i2, g.order, hm)
        ELSE IF ~Dumpable(sf, rv)
        THEN Codec(Run(gets, <<fa>>, <<>>, Raise("TypeError"), i2, g.order, hm),
                   <<[by |-> ser.by, arg |-> rv, out |-> Nil]>>, <<>>)
        ELSE LET p == PutScript(scr[2], g.order, hm, maxsize, h, ser.out, ext)
             IN  Codec(Run(gets, <<fa>>, << <<h, ser.out>> >>,
                           Return(PutReturn([retval |-> rv])), i2 \o StatsAfterPut(so),
                           p.order, p.hmap),
                       <<ser>>, <<>>)

\* RedisFuncCache.aexec from its first line to its return or raise, written
\* out statement by statement
AexecRun(sk, m, so, ord, hm, d, args, kwds) ==
    LET dc == Decor(d)
        bound == make_bound(dc, args, kwds)
        h == prepare(dc, args, kwds, bound)
        ext == calc_ext_args(policy)
        scr == ScriptsOf(policy)
        count == IF so # 0 THEN <<"count">> ELSE <<>>
        cached == IF m.read THEN GetScript(scr[1], ord, hm, h, ext).ret ELSE Nil
        ord1 == IF m.read THEN GetScript(scr[1], ord, hm, h, ext).order ELSE ord
        gets == IF m.read THEN <<h>> ELSE <<>>
        read == IF m.read /\ so # 0
                THEN <<"read", IF cached = Nil THEN "miss" ELSE "hit">>
                ELSE <<>>
        retval == FnResult(dc, args, kwds)
        exec == IF so # 0 THEN <<"exec">> ELSE <<>>
        write == IF so # 0 THEN <<"write">> ELSE <<>>
        serialize_func == SerializerOf(d)
        deserialize_func == SerializerOf(d)
    IN  IF ~AsyncScripts(sk)
        THEN Run(<<>>, <<>>, <<>>, Raise("TypeError"), <<>>, ord, hm)
        ELSE IF ~CanHash(h)
        THEN Run(<<>>, <<>>, <<>>, Raise("TypeError"), count, ord, hm)
        ELSE IF m.read /\ cached # Nil
        THEN Codec(Run(gets, <<>>, <<>>, Return(deserialize_f(cached, deserialize_func).out),
                       count \o read, ord1, hm),
                   <<>>, <<deserialize_f(cached, deserialize_func)>>)
        ELSE IF ~m.exec
        THEN Run(gets, <<>>, <<>>, Raise("CacheMissError"), count \o read, ord1, hm)
        ELSE IF FnRaises(dc)
        THEN Run(gets, << <<args, kwds>> >>, <<>>, Raise("ValueError"), count \o read,
                 ord1, hm)
        ELSE IF ~m.write
        THEN Run(gets, << <<args, kwds>> >>, <<>>, Return(retval), count \o read \o exec,
                 ord1, hm)
        ELSE IF ~Dumpable(serialize_func, retval)
        THEN Codec(Run(gets, << <<args, kwds>> >>, <<>>, Raise("TypeError"),
                       count \o read \o exec, ord1, hm),
                   <<[by |-> serialize_f(retval, serialize_func).by, arg |-> retval,
                      out |-> Nil]>>, <<>>)
        ELSE LET data == serialize_f(retval, serialize_func).out
                 p == PutScript(scr[2], ord1, hm, maxsize, h, data, ext)
             IN  Codec(Run(gets, << <<args, kwds>> >>, << <<h, data>> >>,
                           Return(retval), count \o read \o exec \o write, p.order, p.hmap),
                       <<serialize_f(retval, serialize_func)>>, <<>>)

\* the counters of a Stats object after a call bumped those named in incs
Bumped(st, incs) ==
    [f \in Counters |-> st[f] + Cardinality({i \in 1..Len(incs) : incs[i] = f})]

\* history: the other tasks whose call in progress has already put this
\* call's signature
PutBefore(t) ==
    IF "hist" \in track
    THEN {u \in Tasks \ {t} : InProgress(u) /\ call[u].nPut = 1 /\ call[u].hash = call[t].hash}
    ELSE {}

\* serialize the result and put it; the caller gets the function's result
PutStep(t) ==
    /\ pc[t] = "put"
    /\ call[t].incs = <<>>
    /\ LET c == call[t]
       IN  IF ~JsonSerializable(c.retval)
           THEN /\ call' = [call EXCEPT ![t] = [c EXCEPT !.out = Raise("TypeError")]]
                /\ UNCHANGED <<order, hmap, covered>>
           ELSE LET r == put(ScriptsOf(policy)[2], c.hash, serialize(c.retval), maxsize,
                             c.ext_args)
                IN  /\ order' = r.order
                    /\ hmap' = r.hmap
                    /\ covered' = IF "covered" \in track THEN covered \cup {c.hash} ELSE covered
                    /\ call' = [call EXCEPT ![t] =
                           [c EXCEPT !.nPut = @ + 1, !.putVal = serialize(c.retval),
                                     !.putAfter = PutBefore(t),
                                     !.incs = StatsAfterPut(c.stats),
                                     !.out = Return(PutReturn(c))]]
    /\ pc' = [pc EXCEPT ![t] = "done"]
    /\ UNCHANGED <<cacheVars, maxsize, policy, ctxMode, tokens, scopes, lastExit, hist, track, stats, ctxStats, statTokens>>

\* the wrapper returns to, or raises into, the calling task
Finish(t) ==
    /\ pc[t] = "done"
    /\ call[t].incs = <<>>
    /\ pc' = [pc EXCEPT ![t] = IF call[t].out.kind = "raise" THEN "raising" ELSE "idle"]
    /\ call' = [call EXCEPT ![t] = NoCall]
    /\ hist' = IF "hist" \in track
               THEN Append(hist, [d |-> call[t].d, args |-> call[t].args, kwds |-> call[t].kwds,
                                  hash |-> call[t].hash, nGet |-> call[t].nGet,
                                  nExec |-> call[t].nExec, nPut |-> call[t].nPut,
                                  hit |-> call[t].cached # Nil, out |-> call[t].out,
                                  mode |-> call[t].mode,
                                  scope |-> IF scopes[t] = <<>> THEN ""
                                            ELSE scopes[t][Len(scopes[t])].kind])
               ELSE hist
    /\ UNCHANGED <<cacheVars, maxsize, policy, order, hmap, ctxMode, tokens, scopes, lastExit, covered, track,
                   stats, ctxStats, statTokens>>

\* the task handles the exception (an except clause, or the thread's top)
Catch(t) ==
    /\ pc[t] = "raising"
    /\ pc' = [pc EXCEPT ![t] = "idle"]
    /\ UNCHANGED <<cacheVars, maxsize, policy, order, hmap, call, ctxMode, tokens, scopes, lastExit, covered, hist, track, stats, ctxStats, statTokens>>

\* ------------------------------------------------------------------------
\* Mode scopes: mode_context, disable_rw, read_only, write_only
\* ------------------------------------------------------------------------
ScopeKinds == {"mode_context", "disable_rw", "read_only", "write_only"}

\* disable_rw that only switches writing off
ScopeMode_rw_keeps_read(kind, cur, m) ==
    CASE kind = "mode_context" -> m
      [] kind = "disable_rw" -> [cur EXCEPT !.write = FALSE]
      [] kind = "read_only" -> [cur EXCEPT !.read = TRUE, !.write = FALSE]
      [] kind = "write_only" -> [cur EXCEPT !.read = FALSE, !.write = TRUE]
\* write_only that leaves reading as it was
ScopeMode_wo_keeps_read(kind, cur, m) ==
    CASE kind = "mode_context" -> m
      [] kind = "disable_rw" -> [cur EXCEPT !.read = FALSE, !.write = FALSE]
      [] kind = "read_only" -> [cur EXCEPT !.read = TRUE, !.write = FALSE]
      [] kind = "write_only" -> [cur EXCEPT !.write = TRUE]
\* the mode a scope installs: the given one, or dataclasses.replace of the
\* current one
ScopeMode(kind, cur, m) ==
    CASE kind = "mode_context" -> m
      [] kind = "disable_rw" -> [cur EXCEPT !.read = FALSE, !.write = FALSE]
      [] kind = "read_only" -> [cur EXCEPT !.read = TRUE, !.write = FALSE]
      [] kind = "write_only" -> [cur EXCEPT !.read = FALSE, !.write = TRUE]

\* the mode kept in a plain attribute shared by every task
EnterScope_shared(t, kind, m) ==
    /\ pc[t] = "idle"
    /\ LET new == ScopeMode(kind, ModeGet(t), m)
       IN  /\ tokens' = [tokens EXCEPT ![t] = Append(@, ctxMode[t])]
           /\ ctxMode' = [u \in Tasks |-> <<new>>]
           /\ scopes' = [scopes EXCEPT ![t] =
                  Append(@, [kind |-> kind, prior |-> get_mode(t), inner |-> new])]
           /\ lastExit' = [lastExit EXCEPT ![t] = NoExit]
    /\ UNCHANGED <<cacheVars, maxsize, policy, order, hmap, pc, call, covered, hist, track, stats, ctxStats, statTokens>>
\* token = self._mode.set(mode): the token keeps the variable's old value
EnterScope(t, kind, m) ==
    /\ pc[t] = "idle"
    /\ LET new == ScopeMode(kind, ModeGet(t), m)
       IN  /\ tokens' = [tokens EXCEPT ![t] = Append(@, ctxMode[t])]
           /\ ctxMode' = [ctxMode EXCEPT ![t] = <<new>>]
           /\ scopes' = [scopes EXCEPT ![t] =
                  Append(@, [kind |-> kind, prior |-> get_mode(t), inner |-> new])]
           /\ lastExit' = [lastExit EXCEPT ![t] = NoExit]
    /\ UNCHANGED <<cacheVars, maxsize, policy, order, hmap, pc, call, covered, hist, track, stats, ctxStats, statTokens>>

\* the reset in the finally clause left out
ResetTo_keep(cur, token) == cur
\* ContextVar.reset(token): back to the value the token was created over
ResetTo(cur, token) == token

\* finally: self._mode.reset(token) -- on leaving the with block normally
\* (task idle) or with an exception passing through it (task raising)
ExitScope(t) ==
    /\ pc[t] \in {"idle", "raising"}
    /\ tokens[t] # <<>>
    /\ ctxMode' = [ctxMode EXCEPT ![t] = ResetTo(@, tokens[t][Len(tokens[t])])]
    /\ tokens' = [tokens EXCEPT ![t] = SubSeq(@, 1, Len(@) - 1)]
    /\ scopes' = [scopes EXCEPT ![t] = SubSeq(@, 1, Len(@) - 1)]
    /\ lastExit' = [lastExit EXCEPT ![t] =
           IF "exit" \in track
           THEN [how |-> IF pc[t] = "raising" THEN "exception" ELSE "normal",
                 kind |-> scopes[t][Len(scopes[t])].kind,
                 prior |-> scopes[t][Len(scopes[t])].prior]
           ELSE NoExit]
    /\ UNCHANGED <<cacheVars, maxsize, policy, order, hmap, pc, call, covered, hist, track, stats, ctxStats, statTokens>>

\* stats_context(stats): a new Stats object when none is given, else the
\* caller's object; token = self._stats.set(stats)
stats_context(t, o, given) ==
    /\ pc[t] = "idle"
    /\ given \/ \A u \in Tasks : ctxStats[u] # o /\ \A i \in 1..Len(statTokens[u]) : statTokens[u][i] # o
    /\ stats' = IF given THEN stats ELSE [stats EXCEPT ![o] = ZeroStats]
    /\ statTokens' = [statTokens EXCEPT ![t] = Append(@, ctxStats[t])]
    /\ ctxStats' = [ctxStats EXCEPT ![t] = o]
    /\ UNCHANGED <<cacheVars, maxsize, policy, order, hmap, pc, call, ctxMode, tokens, scopes, lastExit,
                   covered, hist, track>>

\* the variable set to None on exit instead of reset to the token
stats_context_exit_none(t) ==
    /\ pc[t] \in {"idle", "raising"}
    /\ statTokens[t] # <<>>
    /\ ctxStats' = [ctxStats EXCEPT ![t] = 0]
    /\ statTokens' = [statTokens EXCEPT ![t] = SubSeq(@, 1, Len(@) - 1)]
    /\ UNCHANGED <<cacheVars, maxsize, policy, order, hmap, pc, call, ctxMode, tokens, scopes, lastExit,
                   covered, hist, track, stats>>
\* finally: self._stats.reset(token)
stats_context_exit(t) ==
    /\ pc[t] \in {"idle", "raising"}
    /\ statTokens[t] # <<>>
    /\ ctxStats' = [ctxStats EXCEPT ![t] = statTokens[t][Len(statTokens[t])]]
    /\ statTokens' = [statTokens EXCEPT ![t] = SubSeq(@, 1, Len(@) - 1)]
    /\ UNCHANGED <<cacheVars, maxsize, policy, order, hmap, pc, call, ctxMode, tokens, scopes, lastExit,
                   covered, hist, track, stats>>

\* ------------------------------------------------------------------------
\* Administrative and environment steps on the store
\* ------------------------------------------------------------------------
\* BaseSinglePolicy.purge: delete both keys
Purge ==
    /\ order' = <<>>
    /\ hmap' = EmptyMap
    /\ covered' = {}
    /\ UNCHANGED <<cacheVars, maxsize, policy, pc, call, ctxMode, tokens, scopes, lastExit, hist, track, stats, ctxStats, statTokens>>

\* the whole-structure TTL runs out: both keys disappear
Expire ==
    /\ order # <<>>
    /\ order' = <<>>
    /\ hmap' = EmptyMap
    /\ covered' = {}
    /\ UNCHANGED <<cacheVars, maxsize, policy, pc, call, ctxMode, tokens, scopes, lastExit, hist, track, stats, ctxStats, statTokens>>

\* ------------------------------------------------------------------------
\* Specifications
\* ------------------------------------------------------------------------
\* a cache built on a client instance with the ttl of the tests, its key
\* pair kept alive
TestTtl == 2
InitCfgUsed ==
    /\ ttl = TestTtl
    /\ updateTtl = TRUE
    /\ cacheSerializer = "json"
    /\ source = "instance"
    /\ built = TRUE
    /\ now = 0
    /\ expiry = 0

\* the policy of a cache that has been used: created, nobody in the property
InitPolicyUsed ==
    /\ policyInst = 1
    /\ nCreated = 1
    /\ polPc = [t \in Tasks |-> "idle"]
    /\ polGot = [t \in Tasks |-> <<>>]

\* a cache with the default prefix and a single-pair policy whose keys have
\* been computed; the pair is held in order/hmap
InitKeysUsed ==
    /\ cachePrefix = DefaultPrefix
    /\ cacheName = <<CacheName>>
    /\ policyBase = "single"
    /\ keysMemo = BaseSinglePolicy_calc_keys(<<>>, DefaultPrefix, <<CacheName>>, "single").keys
    /\ keyspace = NoKeys

\* RedisFuncCache.__init__ with a synchronous redis client
InitCache ==
    /\ client = "sync"
    /\ decorated = [d \in Decorable |-> decorate("sync", d)]
    /\ InitCfgUsed
    /\ conn = 1
    /\ scriptConn = 1
    /\ InitPolicyUsed
    /\ InitKeysUsed

InitTasks ==
    /\ InitCache
    /\ pc = [t \in Tasks |-> "idle"]
    /\ call = [t \in Tasks |-> NoCall]
    /\ ctxMode = [t \in Tasks |-> <<>>]
    /\ tokens = [t \in Tasks |-> <<>>]
    /\ scopes = [t \in Tasks |-> <<>>]
    /\ lastExit = [t \in Tasks |-> NoExit]
    /\ stats = [o \in StatsObjs |-> ZeroStats]
    /\ ctxStats = [t \in Tasks |-> 0]
    /\ statTokens = [t \in Tasks |-> <<>>]

\* -- Spec: concurrent callers on one cache, scopes not nested --
ArgsMain == {<<PyInt(0)>>, <<PyTuple(0)>>}
PoolsMain == {PyInt(1), PyInt(2)}
ModesMain == {Mode(TRUE, TRUE, FALSE), Mode(FALSE, TRUE, FALSE)}

Init ==
    /\ maxsize \in 1..MaxMaxsize
    /\ policy = "lru"
    /\ order = <<>>
    /\ hmap = EmptyMap
    /\ InitTasks
    /\ covered = {}
    /\ hist = <<>>
    /\ track = {}

Next ==
    \/ \E t \in Tasks, a \in ArgsMain : Call(t, "echo", a, <<>>)
    \/ \E t \in Tasks : Call(t, "fail", <<PyInt(0)>>, <<>>)
    \/ \E t \in Tasks, pool \in PoolsMain :
          Call(t, "get_data", <<pool>>, <<<<"book_id", PyInt(1)>>>>)
    \/ \E t \in Tasks : GetStep(t)
    \/ \E t \in Tasks : ExecStep(t)
    \/ \E t \in Tasks : PutStep(t)
    \/ \E t \in Tasks : Finish(t)
    \/ \E t \in Tasks : Catch(t)
    \/ \E t \in Tasks, k \in ScopeKinds \ {"mode_context"} :
          tokens[t] = <<>> /\ EnterScope(t, k, DefaultMode)
    \/ \E t \in Tasks, m \in ModesMain :
          tokens[t] = <<>> /\ EnterScope(t, "mode_context", m)
    \/ \E t \in Tasks : ExitScope(t)
    \/ Purge
    \/ Expire

Spec == Init /\ [][Next]_vars

TypeOK ==
    /\ maxsize >= 1
    /\ \A t \in Tasks : pc[t] \in {"idle", "get", "exec", "put", "done", "raising"}
    /\ \A t \in Tasks : Len(tokens[t]) = Len(scopes[t])
    /\ DOMAIN hmap = {order[i] : i \in 1..Len(order)}

\* -- SpecCap: concurrent callers in the default mode, over more signatures
\*    than the cache holds --
ArgsCap == {<<PyInt(0)>>, <<PyInt(1)>>, <<PyTuple(0)>>}

InitCap ==
    /\ maxsize \in 1..MaxMaxsize
    /\ policy \in Policies
    /\ order = <<>>
    /\ hmap = EmptyMap
    /\ InitTasks
    /\ covered = {}
    /\ hist = <<>>
    /\ track = {"covered"}

NextCap ==
    \/ \E t \in Tasks, a \in ArgsCap : Call(t, "echo", a, <<>>)
    \/ \E t \in Tasks : GetStep(t)
    \/ \E t \in Tasks : ExecStep(t)
    \/ \E t \in Tasks : PutStep(t)
    \/ \E t \in Tasks : Finish(t)
    \/ Purge
    \/ Expire

SpecCap == InitCap /\ [][NextCap]_vars

\* -- SpecLru: tests/test_eviction.py, one caller, LruPolicy, maxsize 3 --
LruMaxsize == 3

InitLru ==
    /\ maxsize = LruMaxsize
    /\ policy = "lru"
    /\ order = <<>>
    /\ hmap = EmptyMap
    /\ InitTasks
    /\ covered = {}
    /\ hist = <<>>
    /\ track = {"hist"}

NextLru ==
    \/ \E x \in 0..LruMaxsize : Len(hist) < MaxHist /\ Call(1, "echo", <<PyInt(x)>>, <<>>)
    \/ GetStep(1)
    \/ ExecStep(1)
    \/ PutStep(1)
    \/ Finish(1)

SpecLru == InitLru /\ [][NextLru]_vars

\* -- SpecExcl: tests/test_excludes.py, one caller, functions decorated with
\*    excludes / excludes_positional, every call shape Python accepts --
MaxCalls == 2
DecorExcl == {"get_data", "get_data_pos", "get_data_both"}
ValsExcl == {PyInt(1), PyInt(2)}
NamesExcl == {"pool", "book_id", "config"}
ArgSeqsExcl == UNION {[1..n -> ValsExcl] : n \in 0..3}
KwdSeqsExcl == UNION {[1..n -> NamesExcl \X ValsExcl] : n \in 0..2}

InitExcl ==
    /\ maxsize = LruMaxsize
    /\ policy = "lru"
    /\ order = <<>>
    /\ hmap = EmptyMap
    /\ InitTasks
    /\ covered = {}
    /\ hist = <<>>
    /\ track = {"hist"}

NextExcl ==
    \/ \E d \in DecorExcl, a \in ArgSeqsExcl, k \in KwdSeqsExcl :
          Len(hist) < MaxCalls /\ Call(1, d, a, k)
    \/ GetStep(1)
    \/ ExecStep(1)
    \/ PutStep(1)
    \/ Finish(1)

SpecExcl == InitExcl /\ [][NextExcl]_vars

\* -- SpecKw: one caller, a function of two parameters decorated without
\*    exclusions, every call shape Python accepts (positional, keyword, the
\*    keywords in either order) --
ValsKw == {PyInt(1), PyInt(2)}
ArgSeqsKw == UNION {[1..n -> ValsKw] : n \in 0..2}
KwdSeqsKw == UNION {[1..n -> {"a", "b"} \X ValsKw] : n \in 0..2}

NextKw ==
    \/ \E a \in ArgSeqsKw, k \in KwdSeqsKw : Len(hist) < MaxCalls /\ Call(1, "f", a, k)
    \/ GetStep(1)
    \/ ExecStep(1)
    \/ PutStep(1)
    \/ Finish(1)

SpecKw == InitExcl /\ [][NextKw]_vars

\* -- SpecMode: nested mode scopes, left normally or by an exception --
ModesScoped == {Mode(TRUE, TRUE, FALSE), Mode(FALSE, FALSE, FALSE)}

InitMode ==
    /\ maxsize = 1
    /\ policy = "lru"
    /\ order = <<>>
    /\ hmap = EmptyMap
    /\ InitTasks
    /\ covered = {}
    /\ hist = <<>>
    /\ track = {"exit"}

NextMode ==
    \/ \E t \in Tasks : Call(t, "fail", <<PyInt(0)>>, <<>>)
    \/ \E t \in Tasks : GetStep(t)
    \/ \E t \in Tasks : ExecStep(t)
    \/ \E t \in Tasks : Finish(t)
    \/ \E t \in Tasks : Catch(t)
    \/ \E t \in Tasks, k \in ScopeKinds \ {"mode_context"} :
          Len(tokens[t]) < MaxDepth /\ EnterScope(t, k, DefaultMode)
    \/ \E t \in Tasks, m \in ModesScoped :
          Len(tokens[t]) < MaxDepth /\ EnterScope(t, "mode_context", m)
    \/ \E t \in Tasks : ExitScope(t)

SpecMode == InitMode /\ [][NextMode]_vars

\* -- SpecScope: tests/test_mode.py, one caller making calls inside and
\*    outside nested mode scopes --
InitScope ==
    /\ maxsize = LruMaxsize
    /\ policy = "lru"
    /\ order = <<>>
    /\ hmap = EmptyMap
    /\ InitTasks
    /\ covered = {}
    /\ hist = <<>>
    /\ track = {"hist"}

NextScope ==
    \/ \E a \in ArgsMain : Len(hist) < MaxCalls /\ Call(1, "echo", a, <<>>)
    \/ Len(hist) < MaxCalls /\ Call(1, "fail", <<PyInt(0)>>, <<>>)
    \/ GetStep(1)
    \/ ExecStep(1)
    \/ PutStep(1)
    \/ Finish(1)
    \/ Catch(1)
    \/ \E k \in ScopeKinds \ {"mode_context"} :
          Len(tokens[1]) < MaxDepth /\ EnterScope(1, k, DefaultMode)
    \/ \E m \in ModesScoped :
          Len(tokens[1]) < MaxDepth /\ EnterScope(1, "mode_context", m)
    \/ ExitScope(1)

SpecScope == InitScope /\ [][NextScope]_vars

\* -- SpecStat: tests/test_stats.py, one caller inside and outside stats
\*    scopes, over new and reused Stats objects --
InitStat ==
    /\ maxsize = LruMaxsize
    /\ policy = "lru"
    /\ order = <<>>
    /\ hmap = EmptyMap
    /\ InitTasks
    /\ covered = {}
    /\ hist = <<>>
    /\ track = {"hist"}

NextStat ==
    \/ \E a \in ArgsMain : Len(hist) < MaxCalls /\ Call(1, "echo", a, <<>>)
    \/ Len(hist) < MaxCalls /\ Call(1, "fail", <<PyInt(0)>>, <<>>)
    \/ StatLoad(1)
    \/ StatStore(1)
    \/ GetStep(1)
    \/ ExecStep(1)
    \/ PutStep(1)
    \/ Finish(1)
    \/ Catch(1)
    \/ \E o \in StatsObjs, given \in BOOLEAN :
          Len(statTokens[1]) < MaxDepth /\ stats_context(1, o, given)
    \/ stats_context_exit(1)
    \/ \E k \in ScopeKinds \ {"mode_context"} :
          tokens[1] = <<>> /\ EnterScope(1, k, DefaultMode)
    \/ ExitScope(1)

SpecStat == InitStat /\ [][NextStat]_vars

\* -- SpecShared: threads whose stats scopes are given the caller's Stats
\*    objects, possibly the same one --
MaxStarted == 3
Started == Len(hist) + Cardinality({t \in Tasks : InProgress(t)})

InitShared ==
    /\ maxsize = LruMaxsize
    /\ policy = "lru"
    /\ order = <<>>
    /\ hmap = EmptyMap
    /\ InitTasks
    /\ covered = {}
    /\ hist = <<>>
    /\ track = {"hist"}

NextShared ==
    \/ \E t \in Tasks : Started < MaxStarted /\ Call(t, "echo", <<PyInt(0)>>, <<>>)
    \/ \E t \in Tasks : StatLoad(t)
    \/ \E t \in Tasks : StatStore(t)
    \/ \E t \in Tasks : GetStep(t)
    \/ \E t \in Tasks : ExecStep(t)
    \/ \E t \in Tasks : PutStep(t)
    \/ \E t \in Tasks : Finish(t)
    \/ \E t \in Tasks, o \in StatsObjs : statTokens[t] = <<>> /\ stats_context(t, o, TRUE)
    \/ \E t \in Tasks : stats_context_exit(t)

SpecShared == InitShared /\ [][NextShared]_vars

\* -- SpecRace: tests/test_threads.py, threads started together on a purged
\*    cache, calling with the same and with different signatures echo, a
\*    function that raises, and a function whose result is the caller's own
\*    excluded argument --
BooksRace == {PyInt(1), PyInt(2)}
PoolsRace == {PyInt(t) : t \in Tasks}
ArgsRace(d) ==
    CASE d = "get_pool" -> {<<p, b>> : p \in PoolsRace, b \in BooksRace}
      [] d = "echo" -> ArgsMain
      [] d = "fail" -> {<<PyInt(1)>>}

InitRace ==
    /\ maxsize \in 1..MaxMaxsize
    /\ policy \in Policies
    /\ order = <<>>
    /\ hmap = EmptyMap
    /\ InitTasks
    /\ covered = {}
    /\ hist = <<>>
    /\ track = {"hist"}

NextRace ==
    \/ \E t \in Tasks, b \in BooksRace :
          Started < MaxStarted /\ Call(t, "get_pool", <<PyInt(t), b>>, <<>>)
    \/ \E t \in Tasks, a \in ArgsRace("echo") : Started < MaxStarted /\ Call(t, "echo", a, <<>>)
    \/ \E t \in Tasks, a \in ArgsRace("fail") : Started < MaxStarted /\ Call(t, "fail", a, <<>>)
    \/ \E t \in Tasks : GetStep(t)
    \/ \E t \in Tasks : ExecStep(t)
    \/ \E t \in Tasks : PutStep(t)
    \/ \E t \in Tasks : Finish(t)
    \/ \E t \in Tasks : Catch(t)

SpecRace == InitRace /\ [][NextRace]_vars

\* -- SpecAsync: tests/test_async.py beside tests/test_basic.py: one caller
\*    makes each call on a cache with a synchronous client through the
\*    wrapper of the function, and on a cache with an asynchronous client, in
\*    the same mode, stats scope and store state, through the wrapper of the
\*    same function declared `async def`; the state kept is that of the
\*    first cache, hist holds what either call did --
ArgsAsync == ArgsMain \cup {<<PyLock>>, <<PySet>>}

RunBoth(d, args, kwds) ==
    /\ pc[1] = "idle"
    /\ Len(hist) < MaxCalls
    /\ ValidCall(Decor(d), args, kwds)
    /\ LET m == ModeGet(1)
           so == ctxStats[1]
           s == ExecRun(ScriptKind("sync"), m, so, order, hmap, d, args, kwds)
           a == AexecRun(ScriptKind("async"), m, so, order, hmap, d, args, kwds)
       IN  /\ order' = s.order
           /\ hmap' = s.hmap
           /\ stats' = IF so = 0 THEN stats ELSE [stats EXCEPT ![so] = Bumped(@, s.incs)]
           /\ hist' = Append(hist, [d |-> d, args |-> args, sync |-> s, async |-> a])
    /\ UNCHANGED <<cacheVars, maxsize, policy, pc, call, ctxMode, tokens, scopes, lastExit,
                   covered, track, ctxStats, statTokens>>

InitAsync ==
    /\ maxsize \in 1..MaxMaxsize
    /\ policy \in Policies
    /\ order = <<>>
    /\ hmap = EmptyMap
    /\ InitTasks
    /\ covered = {}
    /\ hist = <<>>
    /\ track = {"hist"}

NextAsync ==
    \/ \E a \in ArgsAsync : RunBoth("echo", a, <<>>)
    \/ RunBoth("fail", <<PyInt(0)>>, <<>>)
    \/ \E m \in AllModes : tokens[1] = <<>> /\ EnterScope(1, "mode_context", m)
    \/ ExitScope(1)
    \/ statTokens[1] = <<>> /\ stats_context(1, 1, TRUE)
    \/ stats_context_exit(1)

SpecAsync == InitAsync /\ [][NextAsync]_vars

\* -- SpecType: one caller on a cache whose client is synchronous or
\*    asynchronous, calling a function and a coroutine function decorated on
\*    it, whichever the client is --
MaxRuns == 3

\* a whole call through the wrapper decorate() returned for the function
Invoke(d, args, kwds) ==
    /\ pc[1] = "idle"
    /\ Len(hist) < MaxRuns
    /\ decorated[d] \in {"wrapper", "awrapper"}
    /\ ValidCall(Decor(d), args, kwds)
    /\ LET m == ModeGet(1)
           so == ctxStats[1]
           r == IF decorated[d] = "awrapper"
                THEN AexecRun(ScriptKind(client), m, so, order, hmap, d, args, kwds)
                ELSE ExecRun(ScriptKind(client), m, so, order, hmap, d, args, kwds)
       IN  /\ order' = r.order
           /\ hmap' = r.hmap
           /\ stats' = IF so = 0 THEN stats ELSE [stats EXCEPT ![so] = Bumped(@, r.incs)]
           /\ hist' = Append(hist, [d |-> d, args |-> args, run |-> r,
                                    hash |-> prepare(Decor(d), args, kwds,
                                                     make_bound(Decor(d), args, kwds)),
                                    order0 |-> order, hmap0 |-> hmap])
    /\ UNCHANGED <<cacheVars, maxsize, policy, pc, call, ctxMode, tokens, scopes, lastExit,
                   covered, track, ctxStats, statTokens>>

\* @cache applied to an object not decorated so far
Decorate(d) ==
    /\ decorated[d] = "none"
    /\ decorated' = [decorated EXCEPT ![d] = decorate(client, d)]
    /\ UNCHANGED <<client, conn, scriptConn, polVars, cfgVars, keyVars, maxsize, policy, order, hmap, pc, call, ctxMode,
                   tokens, scopes, lastExit, covered, hist, track, stats, ctxStats, statTokens>>

InitType ==
    /\ maxsize = LruMaxsize
    /\ policy = "lru"
    /\ order = <<>>
    /\ hmap = EmptyMap
    /\ pc = [t \in Tasks |-> "idle"]
    /\ call = [t \in Tasks |-> NoCall]
    /\ ctxMode = [t \in Tasks |-> <<>>]
    /\ tokens = [t \in Tasks |-> <<>>]
    /\ scopes = [t \in Tasks |-> <<>>]
    /\ lastExit = [t \in Tasks |-> NoExit]
    /\ stats = [o \in StatsObjs |-> ZeroStats]
    /\ ctxStats = [t \in Tasks |-> 0]
    /\ statTokens = [t \in Tasks |-> <<>>]
    /\ client \in {"sync", "async"}
    /\ decorated = [d \in Decorable |-> "none"]
    /\ InitCfgUsed
    /\ conn = 1
    /\ scriptConn = 1
    /\ InitPolicyUsed
    /\ InitKeysUsed
    /\ covered = {}
    /\ hist = <<>>
    /\ track = {"hist"}

NextType ==
    \/ \E d \in Decorable : Decorate(d)
    \/ \E d \in {"echo", "aecho"}, a \in ArgsMain : Invoke(d, a, <<>>)
    \/ statTokens[1] = <<>> /\ stats_context(1, 1, TRUE)
    \/ stats_context_exit(1)

SpecType == InitType /\ [][NextType]_vars

\* -- SpecConn: one caller on a cache built with a client factory, whose
\*    returned connection changes between calls --
NConns == 2
Conns == 1..NConns

\* RedisFuncCache.get_client with a factory: what the factory returns now
get_client(c) == c

\* AbstractPolicy.lua_scripts: the pair registered on the cache's client the
\* first time, the stored pair ever after
lua_scripts(sc, c) == IF sc = 0 THEN get_client(c) ELSE sc

\* the factory starts to return another connection
Reconnect(c) ==
    /\ c # conn
    /\ conn' = c
    /\ UNCHANGED <<client, decorated, scriptConn, polVars, cfgVars, keyVars, maxsize, policy, order, hmap, pc, call,
                   ctxMode, tokens, scopes, lastExit, covered, hist, track, stats, ctxStats,
                   statTokens>>

\* a whole call through the wrapper; a Script called without client= runs on
\* the connection it was registered on
CallOn(d, args, kwds) ==
    /\ pc[1] = "idle"
    /\ Len(hist) < MaxRuns
    /\ ValidCall(Decor(d), args, kwds)
    /\ LET sc == lua_scripts(scriptConn, conn)
           r == ExecRun(ScriptKind(client), ModeGet(1), ctxStats[1], order, hmap, d, args, kwds)
       IN  /\ scriptConn' = sc
           /\ order' = r.order
           /\ hmap' = r.hmap
           /\ hist' = Append(hist, [d |-> d, args |-> args, run |-> r,
                                    ranOn |-> sc, current |-> get_client(conn)])
    /\ UNCHANGED <<client, decorated, conn, polVars, cfgVars, keyVars, maxsize, policy, pc, call, ctxMode, tokens,
                   scopes, lastExit, covered, track, stats, ctxStats, statTokens>>

InitConn ==
    /\ maxsize = LruMaxsize
    /\ policy = "lru"
    /\ order = <<>>
    /\ hmap = EmptyMap
    /\ pc = [t \in Tasks |-> "idle"]
    /\ call = [t \in Tasks |-> NoCall]
    /\ ctxMode = [t \in Tasks |-> <<>>]
    /\ tokens = [t \in Tasks |-> <<>>]
    /\ scopes = [t \in Tasks |-> <<>>]
    /\ lastExit = [t \in Tasks |-> NoExit]
    /\ stats = [o \in StatsObjs |-> ZeroStats]
    /\ ctxStats = [t \in Tasks |-> 0]
    /\ statTokens = [t \in Tasks |-> <<>>]
    /\ client = "sync"
    /\ decorated = [d \in Decorable |-> decorate("sync", d)]
    /\ InitCfgUsed
    /\ conn \in Conns
    /\ scriptConn = 0
    /\ InitPolicyUsed
    /\ InitKeysUsed
    /\ covered = {}
    /\ hist = <<>>
    /\ track = {"hist"}

NextConn ==
    \/ \E c \in Conns : Reconnect(c)
    \/ \E a \in ArgsMain : CallOn("echo", a, <<>>)

SpecConn == InitConn /\ [][NextConn]_vars

\* -- SpecPolicy: the threads of the application read cache.policy of a
\*    cache just constructed; a thread may be pre-empted between the test of
\*    _policy_instance, the assignment to it and the read that is returned --
MaxAccess == 3

polFrame == <<client, decorated, conn, scriptConn, cfgVars, keyVars, maxsize, policy, order, hmap, pc, call,
              ctxMode, tokens, scopes, lastExit, covered, hist, track, stats, ctxStats,
              statTokens>>

\* `if self._policy_instance is None:`
PolicyTest(t) ==
    /\ polPc[t] = "idle"
    /\ Len(polGot[t]) < MaxAccess
    /\ polPc' = [polPc EXCEPT ![t] = IF policyInst = 0 THEN "create" ELSE "return"]
    /\ UNCHANGED <<policyInst, nCreated, polGot, polFrame>>

\* `self._policy_instance = self._policy_type(weakref.proxy(self))`
PolicyCreate(t) ==
    /\ polPc[t] = "create"
    /\ nCreated' = nCreated + 1
    /\ policyInst' = nCreated + 1
    /\ polPc' = [polPc EXCEPT ![t] = "return"]
    /\ UNCHANGED <<polGot, polFrame>>

\* `return self._policy_instance`
PolicyReturn(t) ==
    /\ polPc[t] = "return"
    /\ polGot' = [polGot EXCEPT ![t] = Append(@, policyInst)]
    /\ polPc' = [polPc EXCEPT ![t] = "idle"]
    /\ UNCHANGED <<policyInst, nCreated, polFrame>>

InitPolicy ==
    /\ maxsize = LruMaxsize
    /\ policy = "lru"
    /\ order = <<>>
    /\ hmap = EmptyMap
    /\ pc = [t \in Tasks |-> "idle"]
    /\ call = [t \in Tasks |-> NoCall]
    /\ ctxMode = [t \in Tasks |-> <<>>]
    /\ tokens = [t \in Tasks |-> <<>>]
    /\ scopes = [t \in Tasks |-> <<>>]
    /\ lastExit = [t \in Tasks |-> NoExit]
    /\ stats = [o \in StatsObjs |-> ZeroStats]
    /\ ctxStats = [t \in Tasks |-> 0]
    /\ statTokens = [t \in Tasks |-> <<>>]
    /\ client = "sync"
    /\ decorated = [d \in Decorable |-> decorate("sync", d)]
    /\ InitCfgUsed
    /\ conn = 1
    /\ scriptConn = 0
    /\ policyInst = 0
    /\ nCreated = 0
    /\ polPc = [t \in Tasks |-> "idle"]
    /\ polGot = [t \in Tasks |-> <<>>]
    /\ InitKeysUsed
    /\ covered = {}
    /\ hist = <<>>
    /\ track = {}

NextPolicy ==
    \/ \E t \in Tasks : PolicyTest(t)
    \/ \E t \in Tasks : PolicyCreate(t)
    \/ \E t \in Tasks : PolicyReturn(t)

SpecPolicy == InitPolicy /\ [][NextPolicy]_vars

\* -- SpecKeyFn: calc_keys of the policy of a cache with some prefix and name
\*    applied to functions and argument lists --
MaxKeyCalls == 2
Prefixes == {DefaultPrefix, <<"{", "app", "}", ":">>}
Names == {<<CacheName>>, <<"{", "}">>, <<"}", "x">>}
\* echo in two modules, two functions of one module with echo's body, echo
\* with another body, and a function returning a constant, before and after
\* the constant was changed
EchoCode == "LOAD_FAST x; RETURN_VALUE"
ConstCode == "LOAD_CONST 1; RETURN_VALUE"
Funcs == {Fn("tests.a", "echo", EchoCode, "None"),
          Fn("tests.b", "echo", EchoCode, "None"),
          Fn("tests.a", "echo2", EchoCode, "None"),
          Fn("tests.a", "echo", "LOAD_FAST x; UNARY_NEGATIVE; RETURN_VALUE", "None"),
          Fn("tests.a", "answer", ConstCode, "None, 1"),
          Fn("tests.a", "answer", ConstCode, "None, 2")}

CalcKeys(f, args) ==
    /\ Len(hist) < MaxKeyCalls
    /\ LET r == PolicyCalcKeys(keysMemo, cachePrefix, cacheName, policyBase, f)
       IN  /\ keysMemo' = r.memo
           /\ hist' = Append(hist, [f |-> f, args |-> args, keys |-> r.keys])
    /\ UNCHANGED <<client, decorated, conn, scriptConn, polVars, cfgVars, cachePrefix, cacheName,
                   policyBase, keyspace,
                   maxsize, policy, order, hmap, pc, call, ctxMode, tokens, scopes, lastExit,
                   covered, track, stats, ctxStats, statTokens>>

InitKeyFn ==
    /\ maxsize = LruMaxsize
    /\ policy = "lru"
    /\ order = <<>>
    /\ hmap = EmptyMap
    /\ pc = [t \in Tasks |-> "idle"]
    /\ call = [t \in Tasks |-> NoCall]
    /\ ctxMode = [t \in Tasks |-> <<>>]
    /\ tokens = [t \in Tasks |-> <<>>]
    /\ scopes = [t \in Tasks |-> <<>>]
    /\ lastExit = [t \in Tasks |-> NoExit]
    /\ stats = [o \in StatsObjs |-> ZeroStats]
    /\ ctxStats = [t \in Tasks |-> 0]
    /\ statTokens = [t \in Tasks |-> <<>>]
    /\ client = "sync"
    /\ decorated = [d \in Decorable |-> decorate("sync", d)]
    /\ InitCfgUsed
    /\ conn = 1
    /\ scriptConn = 0
    /\ InitPolicyUsed
    /\ cachePrefix \in Prefixes
    /\ cacheName \in Names
    /\ policyBase \in Bases
    /\ keysMemo = <<>>
    /\ keyspace = NoKeys
    /\ covered = {}
    /\ hist = <<>>
    /\ track = {"hist"}

NextKeyFn == \E f \in Funcs, a \in ArgsMain : CalcKeys(f, a)

SpecKeyFn == InitKeyFn /\ [][NextKeyFn]_vars

\* -- SpecKeys: one caller on a cache whose policy is of one of the four
\*    base classes, in a redis server that may hold another cache's keys;
\*    the application calls two functions, purges the policy, and sets the
\*    name and the prefix of the cache --
FnOf(d) ==
    IF d = "echo" THEN Fn("tests.a", "echo", EchoCode, "None")
    ELSE Fn("tests.a", d, "LOAD_FAST a; RETURN_VALUE", "None")
CallsKeys == {<<"echo", <<PyInt(0)>>>>, <<"echo", <<PyTuple(0)>>>>, <<"f", <<PyInt(0), PyInt(0)>>>>}
NewNames == {<<"{", "}">>, <<" ", "test2", " ">>, <<" ">>}
NewPrefixes == {<<"{", "app", "}", ":">>, <<" ">>}
\* the key pair of a function of another cache that uses the same server
OtherKeys(b) == PolicyCalcKeys(<<>>, DefaultPrefix, <<"other">>, b, FnOf("echo")).keys
OtherMap == [h \in {calc_hash("echo", <<PyInt(0)>>, <<>>)} |-> PyInt(0)]

\* no call: the record of a step that is not a wrapper call
NoRun == Run(<<>>, <<>>, <<>>, NoOut, <<>>, <<>>, EmptyMap)

keysFrame == <<client, decorated, conn, scriptConn, polVars, cfgVars, maxsize, policy, order, hmap, pc,
               call, ctxMode, tokens, scopes, lastExit, covered, track, stats, ctxStats,
               statTokens>>

\* a whole call through the wrapper, the scripts acting on the pair calc_keys
\* gives
CallK(d, args) ==
    /\ Len(hist) < MaxRuns
    /\ ValidCall(Decor(d), args, <<>>)
    /\ LET ck == PolicyCalcKeys(keysMemo, cachePrefix, cacheName, policyBase, FnOf(d))
           r == ExecRun(ScriptKind(client), ModeGet(1), ctxStats[1],
                        Held(keyspace, ck.keys[1], <<>>), Held(keyspace, ck.keys[2], EmptyMap),
                        d, args, <<>>)
           after == Stored(keyspace, ck.keys, r.order, r.hmap)
       IN  /\ keysMemo' = ck.memo
           /\ keyspace' = after
           /\ hist' = Append(hist, [op |-> "call", d |-> d, args |-> args, keys |-> ck.keys,
                                    hash |-> prepare(Decor(d), args, <<>>,
                                                     make_bound(Decor(d), args, <<>>)),
                                    run |-> r, ret |-> 0, pfx |-> cachePrefix,
                                    nm |-> cacheName, before |-> keyspace, after |-> after])
    /\ UNCHANGED <<cachePrefix, cacheName, policyBase, keysFrame>>

\* cache.policy.purge()
PurgeK ==
    /\ Len(hist) < MaxRuns
    /\ LET ck == IF policyBase \in {"single", "cluster"}
                 THEN PolicyCalcKeys(keysMemo, cachePrefix, cacheName, policyBase, FnOf("echo"))
                 ELSE [keys |-> <<>>, memo |-> keysMemo]
           r == IF policyBase \in {"single", "cluster"}
                THEN BaseSinglePolicy_purge(keyspace, ck.keys)
                ELSE BaseMultiplePolicy_purge(keyspace, cachePrefix, cacheName, policyBase)
       IN  /\ keysMemo' = ck.memo
           /\ keyspace' = r.keys
           /\ hist' = Append(hist, [op |-> "purge", d |-> "", args |-> <<>>, keys |-> ck.keys,
                                    hash |-> NoHash, run |-> NoRun, ret |-> r.ret,
                                    pfx |-> cachePrefix, nm |-> cacheName,
                                    before |-> keyspace, after |-> r.keys])
    /\ UNCHANGED <<cachePrefix, cacheName, policyBase, keysFrame>>

\* cache.name = value; a value that is empty once stripped raises ValueError
\* and leaves the name
SetName(value) ==
    /\ Strip(value) # <<>>
    /\ Strip(value) # cacheName
    /\ cacheName' = Strip(value)
    /\ UNCHANGED <<cachePrefix, policyBase, keysMemo, keyspace, hist, keysFrame>>

\* cache.prefix = value
SetPrefix(value) ==
    /\ Strip(value) # <<>>
    /\ Strip(value) # cachePrefix
    /\ cachePrefix' = Strip(value)
    /\ UNCHANGED <<cacheName, policyBase, keysMemo, keyspace, hist, keysFrame>>

InitKeys ==
    /\ maxsize = LruMaxsize
    /\ policy = "lru"
    /\ order = <<>>
    /\ hmap = EmptyMap
    /\ pc = [t \in Tasks |-> "idle"]
    /\ call = [t \in Tasks |-> NoCall]
    /\ ctxMode = [t \in Tasks |-> <<>>]
    /\ tokens = [t \in Tasks |-> <<>>]
    /\ scopes = [t \in Tasks |-> <<>>]
    /\ lastExit = [t \in Tasks |-> NoExit]
    /\ stats = [o \in StatsObjs |-> ZeroStats]
    /\ ctxStats = [t \in Tasks |-> 0]
    /\ statTokens = [t \in Tasks |-> <<>>]
    /\ client = "sync"
    /\ decorated = [d \in Decorable |-> decorate("sync", d)]
    /\ InitCfgUsed
    /\ conn = 1
    /\ scriptConn = 0
    /\ InitPolicyUsed
    /\ cachePrefix = DefaultPrefix
    /\ cacheName = <<CacheName>>
    /\ policyBase \in Bases
    /\ keysMemo = <<>>
    /\ keyspace \in {NoKeys,
                      Stored(NoKeys, OtherKeys(policyBase), <<calc_hash("echo", <<PyInt(0)>>, <<>>)>>,
                             OtherMap)}
    /\ covered = {}
    /\ hist = <<>>
    /\ track = {"hist"}

NextKeys ==
    \/ \E c \in CallsKeys : CallK(c[1], c[2])
    \/ PurgeK
    \/ \E n \in NewNames : SetName(n)
    \/ \E q \in NewPrefixes : SetPrefix(q)

SpecKeys == InitKeys /\ [][NextKeys]_vars

\* -- SpecSer: one caller on a cache with the default codec, calling echo0,
\*    decorated with serializer="pickle", and echo, decorated with none --
InitSer ==
    /\ maxsize = LruMaxsize
    /\ policy = "lru"
    /\ order = <<>>
    /\ hmap = EmptyMap
    /\ InitTasks
    /\ covered = {}
    /\ hist = <<>>
    /\ track = {"hist"}

NextSer ==
    \/ \E d \in {"echo", "echo0"}, a \in ArgsAsync : Invoke(d, a, <<>>)
    \/ statTokens[1] = <<>> /\ stats_context(1, 1, TRUE)
    \/ stats_context_exit(1)

SpecSer == InitSer /\ [][NextSer]_vars

\* -- SpecConf: the application constructs a cache and assigns to its
\*    properties; numbers are counted in halves, so that 1 is 0.5 --
NumArgs == {-2, 0, 1, 2, 3}
TextArgs == {<<CacheName>>, <<" ">>, <<" ", "c", " ">>}
ClientArgs == {"instance", "factory", "none"}
\* int(value) of a number given in halves
int_of(h) == IF h >= 0 THEN h \div 2 ELSE -((-h) \div 2)

\* the maxsize and ttl setters: `if not value > 0: raise ValueError`, then
\* int(value) is kept
number_setter(old, h) ==
    IF ~(h > 0) THEN [val |-> old, out |-> "ValueError"]
    ELSE [val |-> int_of(h), out |-> "ok"]
\* the name and prefix setters: str(value).strip(), ValueError when empty
text_setter(old, value) ==
    IF Strip(value) = <<>> THEN [val |-> old, out |-> "ValueError"]
    ELSE [val |-> Strip(value), out |-> "ok"]

\* the fields the setters guard
Config == [name |-> cacheName, prefix |-> cachePrefix, maxsize |-> maxsize, ttl |-> ttl]

confFrame == <<client, decorated, conn, scriptConn, polVars, policyBase, keysMemo, keyspace,
               policy, order, hmap, pc, call, ctxMode, tokens, scopes, lastExit, covered,
               track, stats, ctxStats, statTokens, updateTtl, now, expiry, cacheSerializer>>

\* RedisFuncCache(name, policy, client, maxsize, ttl, prefix=prefix): the
\* four setters in turn, the first ValueError ending the construction
Construct(nm, pfx, ms, tl, cl) ==
    /\ ~built
    /\ hist = <<>>
    /\ LET n == text_setter(cacheName, nm)
           q == text_setter(cachePrefix, pfx)
           m == number_setter(maxsize, ms)
           t == number_setter(ttl, tl)
           ok == n.out = "ok" /\ q.out = "ok" /\ m.out = "ok" /\ t.out = "ok"
       IN  /\ built' = ok
           /\ cacheName' = IF ok THEN n.val ELSE cacheName
           /\ cachePrefix' = IF ok THEN q.val ELSE cachePrefix
           /\ maxsize' = IF ok THEN m.val ELSE maxsize
           /\ ttl' = IF ok THEN t.val ELSE ttl
           /\ source' = IF ok THEN (IF cl = "factory" THEN "factory"
                                    ELSE IF cl = "instance" THEN "instance" ELSE "none")
                       ELSE source
           /\ hist' = Append(hist, [op |-> "init", bad |-> ~(ms > 0 /\ tl > 0 /\ Strip(nm) # <<>>
                                                             /\ Strip(pfx) # <<>>),
                                    client |-> cl,
                                    out |-> IF ok THEN "ok" ELSE "ValueError",
                                    before |-> Config,
                                    after |-> IF ok THEN [name |-> n.val, prefix |-> q.val,
                                                          maxsize |-> m.val, ttl |-> t.val]
                                              ELSE Config])
    /\ UNCHANGED confFrame

\* cache.maxsize = value, cache.ttl = value, cache.name = value,
\* cache.prefix = value
Assign(field, value) ==
    /\ built
    /\ Len(hist) < MaxRuns
    /\ LET r == IF field \in {"maxsize", "ttl"} THEN number_setter(Config[field], value)
                ELSE text_setter(Config[field], value)
           after == [Config EXCEPT ![field] = r.val]
       IN  /\ maxsize' = after.maxsize
           /\ ttl' = after.ttl
           /\ cacheName' = after.name
           /\ cachePrefix' = after.prefix
           /\ hist' = Append(hist, [op |-> field,
                                    bad |-> IF field \in {"maxsize", "ttl"} THEN ~(value > 0)
                                            ELSE Strip(value) = <<>>,
                                    client |-> source, out |-> r.out,
                                    before |-> Config, after |-> after])
    /\ UNCHANGED <<confFrame, built, source>>

\* cache.get_client(): the first use of the connection
GetClient ==
    /\ built
    /\ Len(hist) < MaxRuns
    /\ hist' = Append(hist, [op |-> "get_client", bad |-> FALSE, client |-> source,
                             out |-> IF source = "none" THEN "RuntimeError" ELSE "ok",
                             before |-> Config, after |-> Config])
    /\ UNCHANGED <<confFrame, built, source, maxsize, ttl, cacheName, cachePrefix>>

InitConf ==
    /\ maxsize = 1
    /\ policy = "lru"
    /\ order = <<>>
    /\ hmap = EmptyMap
    /\ pc = [t \in Tasks |-> "idle"]
    /\ call = [t \in Tasks |-> NoCall]
    /\ ctxMode = [t \in Tasks |-> <<>>]
    /\ tokens = [t \in Tasks |-> <<>>]
    /\ scopes = [t \in Tasks |-> <<>>]
    /\ lastExit = [t \in Tasks |-> NoExit]
    /\ stats = [o \in StatsObjs |-> ZeroStats]
    /\ ctxStats = [t \in Tasks |-> 0]
    /\ statTokens = [t \in Tasks |-> <<>>]
    /\ client = "sync"
    /\ decorated = [d \in Decorable |-> "none"]
    /\ conn = 1
    /\ scriptConn = 0
    /\ policyInst = 0
    /\ nCreated = 0
    /\ polPc = [t \in Tasks |-> "idle"]
    /\ polGot = [t \in Tasks |-> <<>>]
    /\ cachePrefix = DefaultPrefix
    /\ cacheName = <<CacheName>>
    /\ policyBase = "single"
    /\ keysMemo = <<>>
    /\ keyspace = NoKeys
    /\ ttl = 1
    /\ updateTtl = TRUE
    /\ cacheSerializer = "json"
    /\ source = "none"
    /\ built = FALSE
    /\ now = 0
    /\ expiry = 0
    /\ covered = {}
    /\ hist = <<>>
    /\ track = {"hist"}

NextConf ==
    \/ \E nm \in TextArgs, ms \in NumArgs, tl \in NumArgs, cl \in ClientArgs :
           Construct(nm, DefaultPrefix, ms, tl, cl)
    \/ \E f \in {"maxsize", "ttl"}, v \in NumArgs : Assign(f, v)
    \/ \E f \in {"name", "prefix"}, v \in TextArgs : Assign(f, v)
    \/ GetClient

SpecConf == InitConf /\ [][NextConf]_vars

\* -- SpecFifo: tests/test_eviction.py test_fifo_order_correctness, one
\*    caller, FifoPolicy, maxsize 3 --
InitFifo ==
    /\ maxsize = LruMaxsize
    /\ policy = "fifo"
    /\ order = <<>>
    /\ hmap = EmptyMap
    /\ InitTasks
    /\ covered = {}
    /\ hist = <<>>
    /\ track = {"hist"}

NextFifo ==
    \/ \E x \in 0..LruMaxsize : Len(hist) < MaxHist /\ Call(1, "echo", <<PyInt(x)>>, <<>>)
    \/ GetStep(1)
    \/ ExecStep(1)
    \/ PutStep(1)
    \/ Finish(1)

SpecFifo == InitFifo /\ [][NextFifo]_vars

\* -- SpecTtl: tests/test_update_ttl.py, one caller, ttl 2, update_ttl given
\*    to the constructor, calls made as the clock advances --
MaxNow == 5
ArgsTtl == {<<PyInt(0)>>, <<PyInt(1)>>}

\* int(update_ttl) as get and put hand it to the script; the flag always set
UpdateTtlArg_always(u) == 1
\* int(update_ttl) as get and put hand it to the script
UpdateTtlArg(u) == IF u THEN 1 ELSE 0

\* get-script and the whole-structure TTL: a hit refreshes it when the flag
\* is set (exp is the time the pair disappears, 0 when there is no pair)
GetScriptTtl(exp, nw, found, flag, tl) ==
    IF found /\ flag = 1 THEN nw + tl ELSE exp
\* put-script and the whole-structure TTL: set when the pair is created or
\* when the flag is set; without the flag an existing pair keeps its TTL or
\* has it set again (again)
PutScriptTtl(exp, nw, flag, tl, again) ==
    IF exp = 0 \/ flag = 1 \/ again THEN nw + tl ELSE exp

ttlFrame == <<client, decorated, conn, scriptConn, polVars, keyVars, ttl, updateTtl, source,
              cacheSerializer,
              built, maxsize, policy, pc, call, ctxMode, tokens, scopes, lastExit, covered,
              track, stats, ctxStats, statTokens>>

\* a whole call through the wrapper at the time now
CallTtl(d, args) ==
    /\ Len(hist) < MaxHist
    /\ \E again \in BOOLEAN :
        LET r == ExecRun(ScriptKind(client), ModeGet(1), ctxStats[1], order, hmap, d, args, <<>>)
            h == prepare(Decor(d), args, <<>>, make_bound(Decor(d), args, <<>>))
            found == h \in DOMAIN hmap
            e1 == IF r.gets # <<>>
                  THEN GetScriptTtl(expiry, now, found, UpdateTtlArg(updateTtl), ttl)
                  ELSE expiry
            e2 == IF r.puts # <<>>
                  THEN PutScriptTtl(e1, now, UpdateTtlArg(updateTtl), ttl, again)
                  ELSE e1
        IN  /\ order' = r.order
            /\ hmap' = r.hmap
            /\ expiry' = e2
            /\ hist' = Append(hist, [hash |-> h, at |-> now, hit |-> found, run |-> r,
                                     before |-> expiry, after |-> e2])
    /\ UNCHANGED <<now, ttlFrame>>

\* a second passes; the pair disappears when its TTL has run out
Tick ==
    /\ now < MaxNow
    /\ now' = now + 1
    /\ IF expiry # 0 /\ now + 1 >= expiry
       THEN order' = <<>> /\ hmap' = EmptyMap /\ expiry' = 0
       ELSE UNCHANGED <<order, hmap, expiry>>
    /\ UNCHANGED <<hist, ttlFrame>>

InitTtl ==
    /\ maxsize = LruMaxsize
    /\ policy = "lru"
    /\ order = <<>>
    /\ hmap = EmptyMap
    /\ pc = [t \in Tasks |-> "idle"]
    /\ call = [t \in Tasks |-> NoCall]
    /\ ctxMode = [t \in Tasks |-> <<>>]
    /\ tokens = [t \in Tasks |-> <<>>]
    /\ scopes = [t \in Tasks |-> <<>>]
    /\ lastExit = [t \in Tasks |-> NoExit]
    /\ stats = [o \in StatsObjs |-> ZeroStats]
    /\ ctxStats = [t \in Tasks |-> 0]
    /\ statTokens = [t \in Tasks |-> <<>>]
    /\ client = "sync"
    /\ decorated = [d \in Decorable |-> decorate("sync", d)]
    /\ conn = 1
    /\ scriptConn = 1
    /\ InitPolicyUsed
    /\ InitKeysUsed
    /\ ttl = TestTtl
    /\ updateTtl \in BOOLEAN
    /\ cacheSerializer = "json"
    /\ source = "factory"
    /\ built = TRUE
    /\ now = 0
    /\ expiry = 0
    /\ covered = {}
    /\ hist = <<>>
    /\ track = {"hist"}

NextTtl ==
    \/ \E a \in ArgsTtl : CallTtl("echo", a)
    \/ Tick

SpecTtl == InitTtl /\ [][NextTtl]_vars

\* -- SpecFlow: one caller, one wrapper call at a time taken statement by
\*    statement, the store answering or failing each script invocation, the
\*    default codec changed between calls; hist is the log of what the calls
\*    did: the invocations of the scripts, the function and the codec halves,
\*    each with the error it raised ("" for none), and how each call ended --
StoreResp == {"ok", "error"}
Codecs == {"json", "pickle"}
ArgsFlow == {<<PyInt(0)>>, <<PySet>>, <<PyLock>>}
DecorFlow == {"echo", "echo0", "fail"}

\* json.loads / pickle.loads given the bytes the other codec wrote raise
JsonLoadable(b) == b.k \in {"int", "list", "str", "none"}
PickleLoadable(b) == \E kd \in PyKinds : b.k = "pickle:" \o kd
Loadable(f, data) == IF f = "pickle" THEN PickleLoadable(data) ELSE JsonLoadable(data)

\* a fallback to the other codec when the effective one raises
OtherCodec(f) == IF f = "pickle" THEN "json" ELSE "pickle"
\* self.serialize(value, f) / self.deserialize(data, f): f when the function
\* was decorated with one, else the cache's default; the codec tried next
\* when it raises: none
EffectiveCodec(f, dflt) == IF f # "" THEN f ELSE dflt
CodecsTried_fallback(f, dflt) == <<EffectiveCodec(f, dflt), OtherCodec(EffectiveCodec(f, dflt))>>
CodecsTried(f, dflt) == <<EffectiveCodec(f, dflt)>>

\* the step a call is at after a failed script invocation: the exception
\* leaves exec, the invocation is not made again
AfterStoreError_retry(step) == step
AfterStoreError(step) == "done"

Ev(ev, by, err, ord, hm) == [ev |-> ev, by |-> by, err |-> err, order |-> ord, hmap |-> hm]
NCalls == Cardinality({i \in 1..Len(hist) : hist[i].ev = "call"})

flowFrame == <<cacheVars, maxsize, policy, ctxMode, tokens, scopes, lastExit, covered, track,
               stats, ctxStats, statTokens>>

\* exec up to the branch on mode.read: prepare hashes the arguments
FlowCall(d, args) ==
    /\ pc[1] = "idle"
    /\ ValidCall(Decor(d), args, <<>>)
    /\ LET dc == Decor(d)
           mode == ModeGet(1)
           bound == make_bound(dc, args, <<>>)
           h == prepare(dc, args, <<>>, bound)
       IN  /\ call' = [call EXCEPT ![1] =
                  [NoCall EXCEPT !.d = d, !.args = args, !.mode = mode, !.bound = bound,
                                 !.keys = calc_keys(policy), !.hash = h,
                                 !.ext_args = calc_ext_args(policy),
                                 !.out = IF CanHash(h) THEN NoOut ELSE Raise("TypeError")]]
           /\ hist' = hist \o <<Ev("call", d, "", order, hmap)>>
                           \o (IF CanHash(h) THEN <<>>
                               ELSE <<Ev("prepare", "", "TypeError", order, hmap)>>)
           /\ pc' = [pc EXCEPT ![1] = IF ~CanHash(h) THEN "done"
                                      ELSE IF mode.read THEN "get" ELSE "exec"]
    /\ UNCHANGED <<order, hmap, flowFrame>>

\* cached = self.get(...); return self.deserialize(cached, deserialize_func)
FlowGet(resp) ==
    /\ pc[1] = "get"
    /\ LET c == call[1]
           r == get(ScriptsOf(policy)[1], c.hash, c.ext_args)
           tried == CodecsTried(SerializerOf(c.d), cacheSerializer)
           loads == [i \in 1..Len(tried) |->
                        Ev("loads", tried[i],
                           IF Loadable(tried[i], r.ret) THEN "" ELSE "DecodeError",
                           r.order, hmap)]
           upto == IF \E i \in 1..Len(tried) : Loadable(tried[i], r.ret)
                   THEN CHOOSE i \in 1..Len(tried) :
                            /\ Loadable(tried[i], r.ret)
                            /\ \A j \in 1..(i - 1) : ~Loadable(tried[j], r.ret)
                   ELSE Len(tried)
       IN  IF resp = "error"
           THEN /\ hist' = Append(hist, Ev("get", "", "ConnectionError", order, hmap))
                /\ call' = [call EXCEPT ![1] = [c EXCEPT !.nGet = @ + 1,
                                                         !.out = Raise("ConnectionError")]]
                /\ pc' = [pc EXCEPT ![1] = AfterStoreError("get")]
                /\ UNCHANGED order
           ELSE /\ order' = r.order
                /\ IF AfterGet(r.ret) = "exec"
                   THEN /\ hist' = Append(hist, Ev("get", "", "", r.order, hmap))
                        /\ call' = [call EXCEPT ![1] = [c EXCEPT !.nGet = @ + 1]]
                        /\ pc' = [pc EXCEPT ![1] = "exec"]
                   ELSE /\ hist' = hist \o <<Ev("get", "", "", r.order, hmap)>>
                                        \o SubSeq(loads, 1, upto)
                        /\ call' = [call EXCEPT ![1] =
                               [c EXCEPT !.nGet = @ + 1, !.cached = r.ret,
                                         !.out = IF Loadable(tried[upto], r.ret)
                                                 THEN Return(Loads(tried[upto], r.ret))
                                                 ELSE Raise("DecodeError")]]
                        /\ pc' = [pc EXCEPT ![1] = "done"]
    /\ UNCHANGED <<hmap, flowFrame>>

\* the mode.exec check and user_function(*user_args, **user_kwds)
FlowExec ==
    /\ pc[1] = "exec"
    /\ LET c == call[1]
           dc == Decor(c.d)
           fa == FnCallArgs(c)
           raised == FnRaises(dc)
           rv == FnResult(dc, fa[1], fa[2])
           nxt == AfterExec(c.mode, raised)
       IN  IF ~MayExecute(c.mode)
           THEN /\ hist' = Append(hist, Ev("mode.exec", "", "CacheMissError", order, hmap))
                /\ call' = [call EXCEPT ![1] = [c EXCEPT !.out = Raise("CacheMissError")]]
                /\ pc' = [pc EXCEPT ![1] = "done"]
           ELSE /\ hist' = Append(hist, Ev("fn", c.d, IF raised THEN "ValueError" ELSE "",
                                           order, hmap))
                /\ call' = [call EXCEPT ![1] =
                       [c EXCEPT !.nExec = @ + 1,
                                 !.retval = IF raised THEN @ ELSE rv,
                                 !.out = IF raised THEN Raise("ValueError")
                                         ELSE IF nxt = "put" THEN @ ELSE Return(rv)]]
                /\ pc' = [pc EXCEPT ![1] = nxt]
    /\ UNCHANGED <<order, hmap, flowFrame>>

\* user_retval_serialized = self.serialize(user_retval, serialize_func);
\* self.put(...); return user_retval
FlowPut(resp) ==
    /\ pc[1] = "put"
    /\ LET c == call[1]
           tried == CodecsTried(SerializerOf(c.d), cacheSerializer)
           dumps == [i \in 1..Len(tried) |->
                        Ev("dumps", tried[i],
                           IF Dumpable(tried[i], c.retval) THEN "" ELSE "TypeError",
                           order, hmap)]
           upto == IF \E i \in 1..Len(tried) : Dumpable(tried[i], c.retval)
                   THEN CHOOSE i \in 1..Len(tried) :
                            /\ Dumpable(tried[i], c.retval)
                            /\ \A j \in 1..(i - 1) : ~Dumpable(tried[j], c.retval)
                   ELSE Len(tried)
           data == Dumps(tried[upto], c.retval)
           r == put(ScriptsOf(policy)[2], c.hash, data, maxsize, c.ext_args)
       IN  IF ~Dumpable(tried[upto], c.retval)
           THEN /\ hist' = hist \o SubSeq(dumps, 1, upto)
                /\ call' = [call EXCEPT ![1] = [c EXCEPT !.out = Raise("TypeError")]]
                /\ pc' = [pc EXCEPT ![1] = "done"]
                /\ UNCHANGED <<order, hmap>>
           ELSE IF resp = "error"
           THEN /\ hist' = hist \o SubSeq(dumps, 1, upto)
                                \o <<Ev("put", "", "ConnectionError", order, hmap)>>
                /\ call' = [call EXCEPT ![1] = [c EXCEPT !.nPut = @ + 1,
                                                         !.out = Raise("ConnectionError")]]
                /\ pc' = [pc EXCEPT ![1] = AfterStoreError("put")]
                /\ UNCHANGED <<order, hmap>>
           ELSE /\ hist' = hist \o SubSeq(dumps, 1, upto)
                                \o <<Ev("put", "", "", r.order, r.hmap)>>
                /\ order' = r.order
                /\ hmap' = r.hmap
                /\ call' = [call EXCEPT ![1] = [c EXCEPT !.nPut = @ + 1, !.putVal = data,
                                                         !.out = Return(PutReturn(c))]]
                /\ pc' = [pc EXCEPT ![1] = "done"]
    /\ UNCHANGED flowFrame

\* the wrapper returns to, or raises into, its caller
FlowReturn ==
    /\ pc[1] = "done"
    /\ hist' = Append(hist, Ev("end", IF call[1].out.kind = "raise" THEN "raise" ELSE "return",
                               IF call[1].out.kind = "raise" THEN call[1].out.val.k ELSE "",
                               order, hmap))
    /\ pc' = [pc EXCEPT ![1] = "idle"]
    /\ call' = [call EXCEPT ![1] = NoCall]
    /\ UNCHANGED <<order, hmap, flowFrame>>

\* cache.serializer = name, between calls
SetSerializer(f) ==
    /\ pc[1] = "idle"
    /\ f # cacheSerializer
    /\ cacheSerializer' = f
    /\ UNCHANGED <<client, decorated, conn, scriptConn, polVars, keyVars, ttl, updateTtl, source,
                   built, now, expiry, maxsize, policy, order, hmap, pc, call, ctxMode, tokens,
                   scopes, lastExit, covered, hist, track, stats, ctxStats, statTokens>>

InitFlow ==
    /\ maxsize = LruMaxsize
    /\ policy = "lru"
    /\ order = <<>>
    /\ hmap = EmptyMap
    /\ InitTasks
    /\ covered = {}
    /\ hist = <<>>
    /\ track = {"hist"}

FlowStep ==
    \/ \E resp \in StoreResp : FlowGet(resp)
    \/ FlowExec
    \/ \E resp \in StoreResp : FlowPut(resp)
    \/ FlowReturn

NextFlow ==
    \/ \E d \in DecorFlow, a \in ArgsFlow : NCalls < MaxCalls /\ FlowCall(d, a)
    \/ FlowStep
    \/ \E f \in Codecs : NCalls < MaxCalls /\ SetSerializer(f)
    \/ \E m \in AllModes : pc[1] = "idle" /\ tokens[1] = <<>> /\ EnterScope(1, "mode_context", m)
    \/ pc[1] = "idle" /\ ExitScope(1)

SpecFlow == InitFlow /\ [][NextFlow]_vars
\* the store and the function answer every invocation
SpecFlowFair == SpecFlow /\ WF_vars(FlowStep)

\* -- SpecCodec: the same caller in the default mode, calling echo and echo0
\*    with a result JSON cannot encode among the arguments --
ArgsCodec == {<<PyInt(0)>>, <<PySet>>}
NextCodec ==
    \/ \E d \in {"echo", "echo0"}, a \in ArgsCodec : NCalls < MaxRuns /\ FlowCall(d, a)
    \/ \E resp \in StoreResp : FlowGet(resp)
    \/ FlowExec
    \/ \E resp \in StoreResp : FlowPut(resp)
    \/ FlowReturn
    \/ \E f \in Codecs : NCalls < MaxRuns /\ SetSerializer(f)

SpecCodec == InitFlow /\ [][NextCodec]_vars

\* -- SpecArgs: one caller in the default mode on a cache whose policy is
\*    LruPolicy, MruPolicy or the policy with the iterator; hist holds, per
\*    call, what each script was invoked with --
PoliciesArgs == {"lru", "mru", "mru-iter"}
ArgsArgs == {<<PyInt(0)>>, <<PyInt(1)>>}

\* decorate(**options): echo0 is decorated with an option, the others with none
OptionsOf(d) == IF d = "echo0" THEN "k" ELSE ""
\* json.dumps(options or {}, ensure_ascii=False).encode()
EncodeOptions(o) == IF o = "" THEN "{}" ELSE "{\"" \o o \o "\": 1}"

\* chain(head, ext_args) read by the script call: what it yields after the
\* head, and the object afterwards (an iterator is left exhausted)
Chained(ext) ==
    [tail |-> ext.left,
     ext |-> IF ext.kind = "iterator" THEN [ext EXCEPT !.left = <<>>] ELSE ext]

NoInvocation == [keys |-> <<>>, hash |-> NoHash, options |-> "", tail |-> <<>>]
\* RedisFuncCache.get / put: the keys and the args the script is called with
\* (the leading numbers and the value left out)
Invocation(keys, hash_value, options, ext) ==
    [keys |-> keys, hash |-> hash_value, options |-> EncodeOptions(options),
     tail |-> Chained(ext).tail]

\* a whole call through the wrapper
CallArgs(d, args) ==
    /\ Len(hist) < MaxRuns
    /\ LET dc == Decor(d)
           mode == ModeGet(1)
           keys == calc_keys(policy)
           h == prepare(dc, args, <<>>, make_bound(dc, args, <<>>))
           ext0 == ExtArgsObject(policy)
           scr == ScriptsOf(policy)
           ginv == Invocation(keys, h, OptionsOf(d), ext0)
           ext1 == Chained(ext0).ext
           g == GetScript(scr[1], order, hmap, h, ginv.tail)
           rv == FnResult(dc, args, <<>>)
           pinv == Invocation(keys, h, OptionsOf(d), ext1)
           p == PutScript(scr[2], g.order, hmap, maxsize, h,
                          Dumps(EffectiveCodec(SerializerOf(d), cacheSerializer), rv), pinv.tail)
       IN  IF g.ret # Nil
           THEN /\ order' = g.order
                /\ hmap' = hmap
                /\ hist' = Append(hist, [d |-> d, hash |-> h, ext |-> ext0.items,
                                         get |-> ginv, put |-> NoInvocation])
           ELSE /\ order' = p.order
                /\ hmap' = p.hmap
                /\ hist' = Append(hist, [d |-> d, hash |-> h, ext |-> ext0.items,
                                         get |-> ginv, put |-> pinv])
    /\ UNCHANGED <<cacheVars, maxsize, policy, pc, call, ctxMode, tokens, scopes, lastExit,
                   covered, track, stats, ctxStats, statTokens>>

InitArgs ==
    /\ maxsize = MaxMaxsize
    /\ policy \in PoliciesArgs
    /\ order = <<>>
    /\ hmap = EmptyMap
    /\ InitTasks
    /\ covered = {}
    /\ hist = <<>>
    /\ track = {"hist"}

NextArgs == \E d \in {"echo", "echo0"}, a \in ArgsArgs : CallArgs(d, a)

SpecArgs == InitArgs /\ [][NextArgs]_vars

\* -- SpecNest: tests/test_stats.py, one caller; a stats scope on the Stats
\*    object 1 and, inside it, a stats scope on the Stats object 2; calls
\*    made outside, between and inside them --
InitNest ==
    /\ maxsize = LruMaxsize
    /\ policy = "lru"
    /\ order = <<>>
    /\ hmap = EmptyMap
    /\ InitTasks
    /\ covered = {}
    /\ hist = <<>>
    /\ track = {"hist"}

NextNest ==
    \/ \E a \in ArgsMain : Len(hist) < MaxRuns /\ Call(1, "echo", a, <<>>)
    \/ Len(hist) < MaxRuns /\ Call(1, "fail", <<PyInt(0)>>, <<>>)
    \/ StatLoad(1)
    \/ StatStore(1)
    \/ GetStep(1)
    \/ ExecStep(1)
    \/ PutStep(1)
    \/ Finish(1)
    \/ Catch(1)
    \/ \E o \in StatsObjs : Len(statTokens[1]) = o - 1 /\ stats_context(1, o, TRUE)
    \/ stats_context_exit(1)

SpecNest == InitNest /\ [][NextNest]_vars

\* -- SpecInv: tests/test_stats.py, one caller inside a stats scope, under
\*    every mode, calling echo with a result JSON can and cannot encode and a
\*    function that raises --
ArgsInv == {<<PyInt(0)>>, <<PySet>>}

NextInv ==
    \/ \E a \in ArgsInv : Len(hist) < MaxCalls /\ Call(1, "echo", a, <<>>)
    \/ Len(hist) < MaxCalls /\ Call(1, "fail", <<PyInt(0)>>, <<>>)
    \/ StatLoad(1)
    \/ StatStore(1)
    \/ GetStep(1)
    \/ ExecStep(1)
    \/ PutStep(1)
    \/ Finish(1)
    \/ Catch(1)
    \/ \E given \in BOOLEAN : statTokens[1] = <<>> /\ stats_context(1, 1, given)
    \/ stats_context_exit(1)
    \/ \E m \in AllModes : tokens[1] = <<>> /\ EnterScope(1, "mode_context", m)
    \/ ExitScope(1)

SpecInv == InitNest /\ [][NextInv]_vars

\* -- SpecSpawn: tests/test_async_context.py test_mode_cross_coroutine; task
\*    1 is a coroutine that enters and leaves mode scopes, calls the wrapper
\*    and creates task 2 once; task 2 does the same from then on. hist holds
\*    the mode task 1 had when it created task 2 --
ModesSpawn == {DefaultMode, Mode(TRUE, FALSE, TRUE), Mode(FALSE, TRUE, FALSE)}
Spawned == hist # <<>>

\* a task started like a thread, with an empty context
copy_context_empty(ctx) == <<>>
\* asyncio.create_task(coro): the task runs in a copy of the current context
copy_context(ctx) == ctx

create_task(t, u) ==
    /\ ~Spawned
    /\ pc[t] = "idle"
    /\ ctxMode' = [ctxMode EXCEPT ![u] = copy_context(ctxMode[t])]
    /\ hist' = <<[d |-> "create_task", mode |-> get_mode(t)]>>
    /\ UNCHANGED <<cacheVars, maxsize, policy, order, hmap, pc, call, tokens, scopes, lastExit,
                   covered, track, stats, ctxStats, statTokens>>

InitSpawn ==
    /\ maxsize = LruMaxsize
    /\ policy = "lru"
    /\ order = <<>>
    /\ hmap = EmptyMap
    /\ InitTasks
    /\ covered = {}
    /\ hist = <<>>
    /\ track = {}

Running(t) == t = 1 \/ Spawned

NextSpawn ==
    \/ create_task(1, 2)
    \/ \E t \in Tasks : Running(t) /\ Call(t, "aecho", <<PyInt(0)>>, <<>>)
    \/ \E t \in Tasks : GetStep(t)
    \/ \E t \in Tasks : ExecStep(t)
    \/ \E t \in Tasks : PutStep(t)
    \/ \E t \in Tasks : Finish(t)
    \/ \E t \in Tasks, m \in ModesSpawn :
          Running(t) /\ Len(tokens[t]) < MaxDepth /\ EnterScope(t, "mode_context", m)
    \/ \E t \in Tasks :
          Running(t) /\ Len(tokens[t]) < MaxDepth /\ EnterScope(t, "disable_rw", DefaultMode)
    \/ \E t \in Tasks : ExitScope(t)

SpecSpawn == InitSpawn /\ [][NextSpawn]_vars

\* ------------------------------------------------------------------------
\* Properties
\* ------------------------------------------------------------------------
InCall(t) == pc[t] \in {"get", "exec", "put", "done"}
CacheMiss == Raise("CacheMissError")

\* C1: with read enabled, a call whose signature is in the payload map when
\* its get step runs returns the stored value (deserialized) straight from
\* the get step: it never reaches the function or the put step.
C1_HitNoExecution ==
    \A t \in Tasks :
        (InCall(t) /\ call[t].mode.read /\ call[t].storeVal # Nil) =>
            /\ pc[t] = "done"
            /\ call[t].out = Return(JsonLoads(call[t].storeVal))
            /\ call[t].nGet = 1 /\ call[t].nExec = 0 /\ call[t].nPut = 0

C1_Witness ==
    \E t \in Tasks :
        /\ pc[t] = "done" /\ call[t].d = "get_data"
        /\ call[t].mode.read /\ call[t].storeVal # Nil
        /\ call[t].nExec = 0 /\ call[t].out.kind = "return"

\* C2: a call whose get step returned nil, with exec and write allowed and a
\* function that returns a serializable value, has when it completes invoked
\* the function once with the caller's unfiltered arguments, invoked put once
\* with the serialized result, and returns the function's own result.
C2_MissExecutesAndPuts ==
    \A t \in Tasks :
        LET c == call[t]
            res == FnResult(Decor(c.d), c.args, c.kwds)
        IN  (pc[t] = "done" /\ c.nGet = 1 /\ c.cached = Nil
                /\ c.mode.exec /\ c.mode.write /\ ~FnRaises(Decor(c.d))) =>
                /\ c.nExec = 1 /\ c.fnArgs = c.args /\ c.fnKwds = c.kwds
                /\ c.nPut = 1 /\ c.putVal = JsonDumps(res)
                /\ c.out = Return(res)

C2_Witness ==
    \E t \in Tasks :
        /\ pc[t] = "done" /\ call[t].d = "echo" /\ call[t].args = <<PyTuple(0)>>
        /\ call[t].nGet = 1 /\ call[t].cached = Nil /\ call[t].nPut = 1
        /\ call[t].out = Return(PyTuple(0))
        /\ call[t].out # Return(JsonLoads(call[t].putVal))

\* C3: the payload map never holds more than maxsize entries, and once the
\* calls since the store was last emptied have covered at least maxsize
\* distinct signatures it holds exactly maxsize.
C3_CapacityInvariant ==
    /\ Cardinality(DOMAIN hmap) <= maxsize
    /\ Cardinality(covered) >= maxsize => Cardinality(DOMAIN hmap) = maxsize

C3_Witness ==
    /\ Cardinality(covered) > maxsize
    /\ Cardinality(DOMAIN hmap) = maxsize
    /\ \E t \in Tasks : pc[t] = "put" /\ call[t].hash \notin DOMAIN hmap

\* C4: under LRU the cache holds, between calls, exactly the maxsize most
\* recently accessed signatures, and a call hits exactly when its signature
\* was among them; after echo(0), echo(1), echo(2), echo(0), echo(3) with
\* maxsize 3 these are 0, 2 and 3, and the next call hits unless it is echo(1).
EchoSig(x) == [fn |-> "echo", args |-> <<PyInt(x)>>, kwds |-> <<>>]
LastAccess(n, h) == CHOOSE i \in 1..n : hist[i].hash = h /\ \A j \in (i + 1)..n : hist[j].hash # h
RecentAfter(n) ==
    {h \in {hist[i].hash : i \in 1..n} :
        Cardinality({hist[j].hash : j \in (LastAccess(n, h) + 1)..n}) < maxsize}
LruScenario == <<0, 1, 2, 0, 3>>
C4_LruEvictsLeastRecent ==
    pc[1] = "idle" =>
        /\ DOMAIN hmap = RecentAfter(Len(hist))
        /\ \A n \in 1..Len(hist) : hist[n].hit = (hist[n].hash \in RecentAfter(n - 1))
        /\ (Len(hist) >= Len(LruScenario)
               /\ \A i \in 1..Len(LruScenario) : hist[i].hash = EchoSig(LruScenario[i])) =>
                /\ Len(hist) = Len(LruScenario) =>
                       DOMAIN hmap = {EchoSig(0), EchoSig(2), EchoSig(3)}
                /\ Len(hist) > Len(LruScenario) =>
                       hist[Len(LruScenario) + 1].hit =
                           (hist[Len(LruScenario) + 1].hash # EchoSig(1))

C4_Witness ==
    /\ pc[1] = "idle"
    /\ Len(hist) = Len(LruScenario) + 1
    /\ \A i \in 1..Len(LruScenario) : hist[i].hash = EchoSig(LruScenario[i])
    /\ hist[Len(LruScenario) + 1].hash = EchoSig(1)
    /\ ~hist[Len(LruScenario) + 1].hit
    /\ hist[4].hit

\* C5: a call of a function that raises never finds a stored value, never
\* reaches put, and when execution is allowed invokes the function and ends
\* with the function's exception; nothing is ever stored under its signature.
C5_ExceptionNotCached ==
    /\ \A h \in DOMAIN hmap : ~FnRaises(Decor(h.fn))
    /\ \A t \in Tasks :
          (InCall(t) /\ FnRaises(Decor(call[t].d))) =>
              /\ pc[t] # "put" /\ call[t].nPut = 0
              /\ call[t].cached = Nil /\ call[t].storeVal = Nil
              /\ (pc[t] = "done" /\ call[t].mode.exec) =>
                     call[t].nExec = 1 /\ call[t].out = Raise("ValueError")

C5_Witness ==
    \E t \in Tasks :
        /\ pc[t] = "done" /\ call[t].d = "fail"
        /\ call[t].nGet = 1 /\ call[t].nExec = 1 /\ call[t].nPut = 0
        /\ call[t].out = Raise("ValueError")
        /\ hmap # EmptyMap

\* C6: of two calls of a function decorated with exclusions, the later one
\* hits without a put when they differ only in the values of excluded
\* arguments, and misses when they differ in an argument that is not
\* excluded; the function receives the caller's unfiltered arguments.
Excluded(dc) ==
    dc.excludes \cup {dc.params[i + 1] : i \in {x \in dc.excludes_positional : x < Len(dc.params)}}
KwNames(kwds) == {kwds[j][1] : j \in 1..Len(kwds)}
C6_ExclusionCorrect ==
    /\ (pc[1] = "done" /\ call[1].nExec = 1) =>
           call[1].fnArgs = call[1].args /\ call[1].fnKwds = call[1].kwds
    /\ \A i \in 1..Len(hist), j \in 1..Len(hist) :
          (i < j /\ hist[i].d = hist[j].d) =>
              LET a == hist[i]
                  b == hist[j]
                  dc == Decor(a.d)
                  kept == {dc.params[n] : n \in 1..Len(dc.params)} \ Excluded(dc)
                  val(c, q) == ParamVal(dc, c.args, c.kwds, q)
                  sameShape == Len(a.args) = Len(b.args) /\ KwNames(a.kwds) = KwNames(b.kwds)
              IN  /\ (sameShape /\ \A q \in kept : val(a, q) = val(b, q)) =>
                         a.hash = b.hash /\ b.hit /\ b.nPut = 0
                  /\ (\E q \in kept : val(a, q) # val(b, q)) =>
                         a.hash # b.hash /\ ~b.hit

\* C7: a task that has entered no mode scope of its own sees the default
\* mode, in get_mode() and in every wrapper call it makes, whatever scopes
\* the other tasks are in.
C7_ModeIsolation ==
    \A t \in Tasks :
        scopes[t] = <<>> =>
            /\ get_mode(t) = DefaultMode
            /\ InCall(t) => call[t].mode = DefaultMode

C7_Witness ==
    \E t \in Tasks, u \in Tasks :
        /\ t # u
        /\ scopes[u] # <<>> /\ get_mode(u) = Mode(FALSE, FALSE, TRUE)
        /\ pc[u] = "done" /\ call[u].nGet = 0 /\ call[u].nPut = 0
        /\ scopes[t] = <<>> /\ pc[t] = "put" /\ call[t].nGet = 1

\* C8: a task inside scopes observes the mode its innermost scope installed,
\* each scope was entered over the mode installed by the scope around it,
\* and right after leaving a scope -- normally or with an exception passing
\* through -- it observes exactly the mode it had before entering it.
C8_ScopeRestoresPrior ==
    \A t \in Tasks :
        /\ scopes[t] # <<>> => get_mode(t) = scopes[t][Len(scopes[t])].inner
        /\ \A i \in 2..Len(scopes[t]) : scopes[t][i].prior = scopes[t][i - 1].inner
        /\ (scopes[t] # <<>> /\ tokens[t][1] = <<>>) => scopes[t][1].prior = DefaultMode
        /\ lastExit[t].how # "" => get_mode(t) = lastExit[t].prior
        /\ InCall(t) => call[t].mode = get_mode(t)

C8_Witness ==
    \E t \in Tasks :
        /\ lastExit[t].how = "exception"
        /\ Len(scopes[t]) = 1
        /\ lastExit[t].prior # DefaultMode
        /\ get_mode(t) = lastExit[t].prior
        /\ pc[t] = "raising"

\* C9: a call made with exec disallowed whose get step returned no value
\* (a miss, or the step skipped) ends in CacheMissError without invoking the
\* function or put.
C9_MissWithoutExec ==
    \A t \in Tasks :
        (InCall(t) /\ ~call[t].mode.exec) =>
            /\ pc[t] # "put" /\ call[t].nExec = 0 /\ call[t].nPut = 0
            /\ (pc[t] = "done" /\ call[t].cached = Nil) => call[t].out = CacheMiss

C9_Witness ==
    \E t \in Tasks :
        /\ pc[t] = "done" /\ call[t].mode = Mode(TRUE, TRUE, FALSE)
        /\ call[t].nGet = 1 /\ call[t].cached = Nil
        /\ call[t].out = CacheMiss /\ call[t].nExec = 0

\* C10 (as stated): a call ends in CacheMissError only when exec is
\* disallowed and the store holds no value for its signature.
C10_OnlyWhenNothingCached ==
    \A t \in Tasks :
        (pc[t] = "done" /\ call[t].out = CacheMiss) =>
            ~call[t].mode.exec /\ call[t].storeVal = Nil

\* C10 (amended): a call ends in CacheMissError only when exec is disallowed
\* and its get step returned no value, because the store holds none or
\* because read is disabled; with read enabled a cached signature never
\* ends in CacheMissError.
C10_OnlyWhenGetReturnedNothing ==
    \A t \in Tasks :
        /\ (pc[t] = "done" /\ call[t].out = CacheMiss) =>
               /\ ~call[t].mode.exec
               /\ call[t].cached = Nil
               /\ ~call[t].mode.read \/ call[t].storeVal = Nil
        /\ (pc[t] = "done" /\ call[t].mode.read /\ call[t].storeVal # Nil) =>
               call[t].out.kind = "return"

C10_Witness ==
    \E t \in Tasks :
        /\ pc[t] = "done" /\ call[t].out = CacheMiss
        /\ call[t].mode = Mode(FALSE, TRUE, FALSE)
        /\ call[t].storeVal # Nil /\ call[t].nGet = 0

\* the scope a task is innermost in, and the mode it had on entering it
Innermost(t) == IF scopes[t] = <<>> THEN "" ELSE scopes[t][Len(scopes[t])].kind
PriorMode(t) == scopes[t][Len(scopes[t])].prior
\* task t takes a step of its wrapper call
CallStep(t) == InCall(t) /\ pc'[t] # pc[t]

NextCallHits(i) ==
    (i < Len(hist) /\ hist[i + 1].hash = hist[i].hash /\ hist[i + 1].mode.read) =>
        hist[i + 1].nGet = 1 /\ hist[i + 1].hit /\ hist[i + 1].nExec = 0

C13_ReadOnlyMissRaises ==
    \A t \in Tasks :
        (Innermost(t) = "read_only" /\ pc[t] = "done") =>
            /\ call[t].storeVal # Nil =>
                   call[t].out = Return(JsonLoads(call[t].storeVal)) /\ call[t].nExec = 0
            /\ call[t].storeVal = Nil =>
                   call[t].out = CacheMiss /\ call[t].nExec = 0

\* C14: a call reaches or has made its get only if its mode's read flag is
\* true and its put only if the write flag is true, each at most once; a call
\* inside a read_only scope never reaches put, whether it hits or misses.
C14_FlagsGateScripts ==
    /\ \A t \in Tasks :
          InCall(t) =>
              /\ (pc[t] = "get" \/ call[t].nGet > 0) => call[t].mode.read
              /\ (pc[t] = "put" \/ call[t].nPut > 0) => call[t].mode.write
              /\ call[t].nGet <= 1 /\ call[t].nPut <= 1
              /\ Innermost(t) = "read_only" =>
                     ~call[t].mode.write /\ pc[t] # "put" /\ call[t].nPut = 0
    /\ \A i \in 1..Len(hist) :
          /\ hist[i].nGet > 0 => hist[i].mode.read
          /\ hist[i].nPut > 0 => hist[i].mode.write
          /\ hist[i].scope = "read_only" => hist[i].nPut = 0

C14_Witness ==
    /\ Len(hist) = 2 /\ hist[1].scope = "read_only" /\ hist[2].scope = "read_only"
    /\ ~hist[1].hit /\ hist[1].nExec = 1 /\ hist[1].nPut = 0
    /\ hist[2].hash = hist[1].hash /\ ~hist[2].hit /\ hist[2].nPut = 0

\* what a completed call has added to each counter of the Stats object of
\* its scope
Delta(t) == [f \in Counters |-> stats[call[t].stats][f] - call[t].stats0[f]]
Counted(t) == pc[t] = "done" /\ call[t].incs = <<>> /\ call[t].stats # 0

\* C15: under a stats scope and the default mode, a call that misses and
\* returns has added one to count, read, miss, exec and write and nothing to
\* hit; a call that hits has added one to count, read and hit and nothing to
\* miss, exec and write.
C15_StatsPerCall ==
    \A t \in Tasks :
        (Counted(t) /\ call[t].mode = DefaultMode /\ call[t].out.kind = "return") =>
            /\ call[t].cached = Nil =>
                   Delta(t) = [count |-> 1, read |-> 1, miss |-> 1, exec |-> 1,
                               write |-> 1, hit |-> 0]
            /\ call[t].cached # Nil =>
                   Delta(t) = [count |-> 1, read |-> 1, miss |-> 0, exec |-> 0,
                               write |-> 0, hit |-> 1]

C15_Witness ==
    /\ Len(hist) = 1 /\ ~hist[1].hit
    /\ Counted(1) /\ call[1].cached # Nil /\ call[1].mode = DefaultMode
    /\ stats[call[1].stats] = [count |-> 2, read |-> 2, miss |-> 1, exec |-> 1,
                               write |-> 1, hit |-> 1]

\* C16: no counter of any Stats object ever decreases, whatever the
\* interleaving, also when one Stats object is the scope's object in several
\* threads at once.
C16_CountersMonotonic ==
    [][\A o \in StatsObjs : \A f \in Counters : stats'[o][f] >= stats[o][f]]_vars

\* C17: under a stats scope, a call has added to read, exec and write exactly
\* the number of get-script, wrapped-function and put-script invocations it
\* made, also when an invocation raised.
C17_StatsCountAttempts ==
    \A t \in Tasks :
        Counted(t) =>
            /\ Delta(t).read = call[t].nGet
            /\ Delta(t).exec = call[t].nExec
            /\ Delta(t).write = call[t].nPut

\* the keyword arguments of a recorded call as a set of (name, value) pairs
KwPairs(h) == {h.kwds[j] : j \in 1..Len(h.kwds)}

\* C18: two calls of one function with the same positional arguments and
\* the same keyword/value pairs, supplied in whatever order, have the same
\* hash, and the later one hits what the earlier one has put.
C18_KwargsOrderIrrelevant ==
    \A i, j \in 1..Len(hist) :
        (/\ i < j
         /\ hist[i].d = hist[j].d
         /\ hist[i].args = hist[j].args
         /\ KwPairs(hist[i]) = KwPairs(hist[j])) =>
            /\ hist[i].hash = hist[j].hash
            /\ hist[i].nPut = 1 => hist[j].hit

\* two calls in progress that both missed, executed and put one signature,
\* t's put after u's, with no other put made since the cache was empty
BothPut(t, u) ==
    /\ t # u /\ pc[t] = "done" /\ pc[u] = "done"
    /\ call[t].hash = call[u].hash
    /\ call[t].cached = Nil /\ call[u].cached = Nil
    /\ call[t].nExec = 1 /\ call[u].nExec = 1
    /\ call[t].nPut = 1 /\ call[u].nPut = 1
    /\ u \in call[t].putAfter
    /\ hist = <<>>
    /\ \A w \in Tasks \ {t, u} : call[w].nPut = 0

\* C19: when two concurrent calls of one signature on a cold cache have both
\* missed, both executed and both put, the payload map holds one entry for
\* the signature, ranked once in the ordering, with the value of the later
\* put, and no more than maxsize entries.
C19_LaterPutWins ==
    \A t, u \in Tasks :
        BothPut(t, u) =>
            /\ call[t].hash \in DOMAIN hmap
            /\ hmap[call[t].hash] = call[t].putVal
            /\ Cardinality({i \in 1..Len(order) : order[i] = call[t].hash}) = 1
            /\ Cardinality(DOMAIN hmap) <= maxsize

C19_Witness ==
    \E t, u \in Tasks :
        /\ BothPut(t, u)
        /\ call[t].putVal # call[u].putVal
        /\ hmap[call[t].hash] # call[u].putVal

\* the parameters that make the signature, and two argument lists that give
\* each of them the same value
KeyedParams(dc) ==
    {dc.params[i] : i \in {j \in 1..Len(dc.params) : (j - 1) \notin dc.excludes_positional}}
        \ dc.excludes
SameSignature(dc, a1, k1, a2, k2) ==
    \A name \in KeyedParams(dc) : ParamVal(dc, a1, k1, name) = ParamVal(dc, a2, k2, name)

\* C20 as stated: whatever the interleaving, a call of a function that
\* returns returns the function's value for the call's own arguments, and a
\* call of a function that raises raises.
C20_ReturnsOwnValue ==
    \A t \in Tasks :
        pc[t] = "done" =>
            LET c == call[t]
                dc == Decor(c.d)
            IN  IF FnRaises(dc)
                THEN c.out = Raise("ValueError")
                ELSE c.out = Return(FnResult(dc, c.args, c.kwds))

\* C20: whatever the interleaving, a call of a function that returns
\* returns either the function's value for its own arguments (it executed)
\* or the deserialized stored value of a call of the same function with the
\* same signature (it hit), never that of another signature; a call of a
\* function that raises raises the function's exception in every thread.
C20_ReturnsValueOfOwnSignature ==
    \A t \in Tasks :
        pc[t] = "done" =>
            LET c == call[t]
                dc == Decor(c.d)
            IN  IF FnRaises(dc)
                THEN c.out = Raise("ValueError") /\ c.nExec = 1
                ELSE IF c.cached = Nil
                THEN c.out = Return(FnResult(dc, c.args, c.kwds))
                ELSE \E a \in ArgsRace(c.d) :
                        /\ SameSignature(dc, c.args, c.kwds, a, <<>>)
                        /\ c.out = Return(deserialize(serialize(FnResult(dc, a, <<>>))))

C20_Witness ==
    \E t, u \in Tasks :
        /\ t # u /\ pc[t] = "done" /\ pc[u] = "done"
        /\ call[t].d = "get_pool" /\ call[u].d = "get_pool"
        /\ call[t].hash = call[u].hash
        /\ call[u].nPut = 1 /\ call[t].cached # Nil
        /\ call[t].out = Return(FnResult(Decor("get_pool"), call[u].args, call[u].kwds))
        /\ call[t].out # Return(FnResult(Decor("get_pool"), call[t].args, call[t].kwds))
        /\ \E i \in 1..Len(hist) : hist[i].d = "fail" /\ hist[i].out = Raise("ValueError")

\* C21: made in the same mode, stats scope and store state, a call through
\* the synchronous wrapper and the call through the asynchronous wrapper
\* invoke the get script, the function and the put script in the same order
\* with the same arguments, bump the same counters, leave the same store and
\* return or raise the same outcome.
C21_SyncAsyncAlike ==
    \A i \in 1..Len(hist) : hist[i].sync = hist[i].async

C21_Witness ==
    /\ Len(hist) = 2
    /\ hist[1].async.puts # <<>> /\ hist[1].async.incs # <<>>
    /\ hist[2].async.gets # <<>> /\ hist[2].async.execs = <<>>
    /\ hist[2].async.out = Return(PyList(0))
    /\ hist[2].async.incs = <<"count", "read", "hit">>

\* a recorded call made through the wrapper that does not fit the client
Mismatched(e) == IsCoroutine(e.d) # (client = "async")

\* C22: a call through the synchronous wrapper on an asynchronous client's
\* scripts, or through the asynchronous wrapper on a synchronous client's,
\* raises TypeError having invoked neither script nor the function and having
\* left store and counters alone; a call that fits the client, made before
\* or after such calls, gets the scripts invoked and returns the function's
\* value (read back from the store when an earlier fitting call put it).
C22_TypeMismatchFailsEarly ==
    \A i \in 1..Len(hist) :
        LET e == hist[i]
            dc == Decor(e.d)
        IN  IF Mismatched(e)
            THEN /\ e.run.out = Raise("TypeError")
                 /\ e.run.gets = <<>> /\ e.run.execs = <<>> /\ e.run.puts = <<>>
                 /\ e.run.incs = <<>>
                 /\ e.run.order = e.order0 /\ e.run.hmap = e.hmap0
            ELSE /\ e.run.gets = <<e.hash>>
                 /\ IF \E j \in 1..(i - 1) : ~Mismatched(hist[j]) /\ hist[j].hash = e.hash
                    THEN /\ e.run.execs = <<>>
                         /\ e.run.out = Return(deserialize(serialize(FnResult(dc, e.args, <<>>))))
                    ELSE /\ e.run.execs = << <<e.args, <<>>>> >>
                         /\ e.run.puts = << <<e.hash, serialize(FnResult(dc, e.args, <<>>))>> >>
                         /\ e.run.out = Return(FnResult(dc, e.args, <<>>))

C22_Witness ==
    /\ Len(hist) = 3
    /\ ~Mismatched(hist[1]) /\ hist[1].run.puts # <<>>
    /\ Mismatched(hist[2]) /\ hist[2].run.out = Raise("TypeError")
    /\ hist[2].args = hist[1].args
    /\ ~Mismatched(hist[3]) /\ hist[3].hash = hist[1].hash
    /\ hist[3].run.execs = <<>> /\ hist[3].run.out.kind = "return"

\* C23: decorate() applied to a function on a cache with an asynchronous
\* client, or to a coroutine function on a cache with a synchronous client,
\* raises TypeError: no wrapper comes out of the decoration.
C23_MismatchRaisesAtDecoration ==
    \A d \in Decorable :
        (/\ decorated[d] # "none"
         /\ IsCallable(d)
         /\ IsCoroutine(d) # (client = "async"))
        => decorated[d] = "TypeError"

\* C24: the get script and the put script of every call run against the
\* connection the cache's client factory returns at the time of the call.
C24_ScriptsFollowFactory ==
    \A i \in 1..Len(hist) :
        (hist[i].run.gets # <<>> \/ hist[i].run.puts # <<>>)
        => hist[i].ranOn = hist[i].current

\* C25: the cache creates at most one policy instance, and all accesses to
\* cache.policy, by whichever thread, return one and the same instance.
C25_OnePolicyInstance ==
    /\ nCreated <= 1
    /\ \A t, u \in Tasks : \A i \in 1..Len(polGot[t]), j \in 1..Len(polGot[u]) :
           polGot[t][i] = polGot[u][j]

\* the two keys are the same but for the last piece, "0" and "1"
SuffixOnly(ks) ==
    /\ Len(ks[1]) = Len(ks[2])
    /\ SubSeq(ks[1], 1, Len(ks[1]) - 1) = SubSeq(ks[2], 1, Len(ks[2]) - 1)
    /\ ks[1][Len(ks[1])] = "0" /\ ks[2][Len(ks[2])] = "1"
\* the key has a part "{...}"
HasTag(key) == \E i, j \in 1..Len(key) : i < j /\ key[i] = "{" /\ key[j] = "}"

\* C27: the two keys calc_keys of a cluster policy (one pair per cache or one
\* pair per function) returns hold the same part in braces, differ in the
\* final 0 / 1 only, and are hashed by a redis cluster on the same part, so
\* that they are in the same slot.
C27_ClusterKeysSameSlot ==
    policyBase \in {"cluster", "cluster-multiple"} =>
        \A i \in 1..Len(hist) :
            /\ SuffixOnly(hist[i].keys)
            /\ HasTag(hist[i].keys[1])
            /\ HashTag(hist[i].keys[1]) = HashTag(hist[i].keys[2])

\* the functions differ in module, qualified name or body
Differ(f, g) ==
    \/ f.module # g.module
    \/ f.qualname # g.qualname
    \/ f.co_code # g.co_code
    \/ f.co_consts # g.co_consts

\* C29: with a policy that keeps one key pair per function, calc_keys gives
\* different pairs to two functions that differ in module, qualified name or
\* body, and the same pair to one function whatever the arguments.
C29_PerFunctionKeys ==
    policyBase \in {"multiple", "cluster-multiple"} =>
        \A i, j \in 1..Len(hist) :
            /\ Differ(hist[i].f, hist[j].f) => hist[i].keys # hist[j].keys
            /\ hist[i].f = hist[j].f => hist[i].keys = hist[j].keys

\* the calls before step i that left signature h cached at that step
CachedAt(i, h) ==
    /\ hist[i].keys # <<>>
    /\ h \in DOMAIN Held(hist[i].before, hist[i].keys[2], EmptyMap)
\* step k is the next call of signature h after step i
NextCallOf(i, k, h) ==
    /\ i < k
    /\ hist[k].op = "call" /\ hist[k].hash = h
    /\ \A j \in (i + 1)..(k - 1) : hist[j].hash # h

\* C26: purge() of a policy with one key pair leaves neither key: the size
\* is 0 and the next call of every signature that was cached misses, the
\* function being executed and the put script invoked; purge() of a policy
\* with a key pair per function leaves no key under the policy's prefix
\* name:__key__: and returns the number of keys deleted, 0 when there was none.
C26_PurgeDeletesAll ==
    \A i \in 1..Len(hist) :
        hist[i].op = "purge" =>
            LET e == hist[i]
            IN  IF policyBase \in {"single", "cluster"}
                THEN /\ e.keys[1] \notin DOMAIN e.after
                     /\ e.keys[2] \notin DOMAIN e.after
                     /\ get_size(e.after, e.keys) = 0
                     /\ \A k \in (i + 1)..Len(hist) :
                            (CachedAt(i, hist[k].hash) /\ NextCallOf(i, k, hist[k].hash))
                            => /\ hist[k].run.gets = <<hist[k].hash>>
                               /\ hist[k].run.execs # <<>>
                               /\ hist[k].run.puts # <<>>
                ELSE LET lit == e.pfx \o e.nm \o <<":", KeyOf(policyBase), ":">>
                     IN  /\ Matching(e.after, lit) = {}
                         /\ e.ret = Cardinality(Matching(e.before, lit))
                         /\ Matching(e.before, lit) = {} => e.ret = 0 /\ e.after = e.before

C26_Witness ==
    /\ Len(hist) = 3
    /\ hist[1].op = "call" /\ hist[1].run.puts # <<>>
    /\ hist[2].op = "purge" /\ hist[2].ret = 2
    /\ hist[3].op = "call" /\ hist[3].hash = hist[1].hash /\ hist[3].run.execs # <<>>
    /\ policyBase = "single"

\* C28: calc_keys of a policy with one key pair returns the pair it computed
\* the first time, from the prefix and the name the cache had then and the
\* policy's __key__, to every call, whatever the function and the arguments.
C28_SingleKeysMemoized ==
    policyBase \in {"single", "cluster"} =>
        \A i \in 1..Len(hist) :
            hist[i].keys = PolicyCalcKeys(<<>>, hist[1].pfx, hist[1].nm, policyBase,
                                          FnOf("echo")).keys

C28_Witness ==
    /\ policyBase = "single"
    /\ Len(hist) = 3
    /\ hist[1].op = "call" /\ hist[2].op = "call" /\ hist[3].op = "call"
    /\ hist[1].d # hist[2].d
    /\ hist[3].nm # hist[1].nm
    /\ hist[3].keys = hist[1].keys
    /\ hist[3].run.execs = <<>>

\* C30: a call of the function decorated with serializer="pickle" that misses
\* calls the serialize half of pickle once, with the function's result, and
\* no deserialize half, and puts what it returned; one that hits calls the
\* deserialize half of pickle once, with the bytes stored for the signature,
\* and returns what it returns, and no serialize half; the calls of the
\* function decorated on the same cache with no serializer call the halves
\* of the cache's default codec only.
C30_SerializerPerFunction ==
    \A i \in 1..Len(hist) :
        LET e == hist[i]
            r == e.run
            rv == FnResult(Decor(e.d), e.args, <<>>)
            by == IF e.d = "echo0" THEN "pickle" ELSE "default"
            dumps(x) == IF e.d = "echo0" THEN PickleDumps(x) ELSE JsonDumps(x)
            loads(b) == IF e.d = "echo0" THEN PickleLoads(b) ELSE JsonLoads(b)
        IN  /\ \A n \in 1..Len(r.sers) : r.sers[n].by = by
            /\ \A n \in 1..Len(r.desers) : r.desers[n].by = by
            /\ IF ~CanHash(e.hash)
               THEN r.sers = <<>> /\ r.desers = <<>> /\ r.puts = <<>>
               ELSE IF r.execs # <<>>
               THEN /\ r.desers = <<>>
                    /\ Len(r.sers) = 1 /\ r.sers[1].arg = rv
                    /\ (e.d = "echo0" \/ rv.k # "set") =>
                           /\ r.sers[1].out = dumps(rv)
                           /\ r.puts = << <<e.hash, dumps(rv)>> >>
               ELSE /\ r.sers = <<>>
                    /\ r.desers = <<[by |-> by, arg |-> e.hmap0[e.hash],
                                     out |-> loads(e.hmap0[e.hash])]>>
                    /\ r.out = Return(loads(e.hmap0[e.hash]))

C30_Witness ==
    /\ Len(hist) = 3
    /\ hist[1].d = "echo0" /\ hist[1].args = <<PyTuple(0)>>
    /\ hist[1].run.sers # <<>> /\ hist[1].run.sers[1].by = "pickle"
    /\ hist[2].d = "echo" /\ hist[2].args = <<PyTuple(0)>>
    /\ hist[2].run.sers # <<>> /\ hist[2].run.sers[1].by = "default"
    /\ hist[3].d = "echo0" /\ hist[3].args = <<PyTuple(0)>>
    /\ hist[3].run.desers # <<>> /\ hist[3].run.out = Return(PyTuple(0))

\* C31: a construction or an assignment with a maxsize or ttl that is not
\* positive, or with a blank name or prefix, raises and leaves the values as
\* they were, and every cache that exists has maxsize > 0, ttl > 0 and a
\* name and a prefix that are not empty.
C31_ConfigAlwaysValid ==
    /\ \A i \in 1..Len(hist) :
           hist[i].bad => hist[i].out = "ValueError" /\ hist[i].after = hist[i].before
    /\ built => /\ maxsize > 0
                /\ ttl > 0
                /\ cacheName # <<>>
                /\ cachePrefix # <<>>

\* C32: a construction given no connection and no connection factory fails:
\* no cache exists that has neither, and no first use of the connection of a
\* cache finds none.
C32_NoSourceFailsAtConstruction ==
    /\ built => source # "none"
    /\ \A i \in 1..Len(hist) : hist[i].op = "get_client" => hist[i].out = "ok"

\* C33: under FIFO the ordering structure holds, between calls, the maxsize
\* most recently inserted signatures in insertion order, whatever was hit in
\* between, and a call hits exactly when its signature is among them; after
\* echo(0), echo(1), echo(2), echo(0), echo(3) with maxsize 3 the entry of
\* echo(0), the earliest inserted and the last one hit, is the one evicted.
Inserted(n) == SelectSeq(SubSeq(hist, 1, n), LAMBDA c : ~c.hit)
LastInserted(n) ==
    LET ins == Inserted(n)
    IN  [i \in 1..(IF Len(ins) > maxsize THEN maxsize ELSE Len(ins)) |->
            ins[i + (IF Len(ins) > maxsize THEN Len(ins) - maxsize ELSE 0)].hash]
FifoScenario == <<0, 1, 2, 0, 3>>
C33_FifoHitsKeepOrder ==
    pc[1] = "idle" /\ policy = "fifo" =>
        /\ order = LastInserted(Len(hist))
        /\ DOMAIN hmap = {order[i] : i \in 1..Len(order)}
        /\ \A n \in 1..Len(hist) :
              hist[n].hit = (\E i \in 1..Len(LastInserted(n - 1)) :
                                LastInserted(n - 1)[i] = hist[n].hash)
        /\ (Len(hist) >= Len(FifoScenario)
               /\ \A i \in 1..Len(FifoScenario) : hist[i].hash = EchoSig(FifoScenario[i])) =>
                /\ hist[4].hit
                /\ Len(hist) = Len(FifoScenario) =>
                       order = <<EchoSig(1), EchoSig(2), EchoSig(3)>>
                /\ Len(hist) > Len(FifoScenario) =>
                       hist[Len(FifoScenario) + 1].hit =
                           (hist[Len(FifoScenario) + 1].hash # EchoSig(0))

C33_Witness ==
    /\ pc[1] = "idle"
    /\ policy = "fifo"
    /\ Len(hist) = Len(FifoScenario) + 1
    /\ \A i \in 1..Len(FifoScenario) : hist[i].hash = EchoSig(FifoScenario[i])
    /\ hist[4].hit
    /\ hist[Len(FifoScenario) + 1].hash = EchoSig(0)
    /\ ~hist[Len(FifoScenario) + 1].hit

\* C34: with update_ttl set, a hit moves the end of the whole-structure TTL
\* to ttl seconds after the hit, so a call made less than ttl seconds after a
\* hit of its signature hits again, however long ago the entry was written;
\* with update_ttl unset a hit leaves the TTL as it was, and a call made ttl
\* seconds or more after the last write misses, executes the function and
\* writes the entry again.
LastWrite(n) ==
    IF \E i \in 1..n : hist[i].run.puts # <<>>
    THEN hist[CHOOSE i \in 1..n : hist[i].run.puts # <<>>
                                    /\ \A j \in (i + 1)..n : hist[j].run.puts = <<>>].at
    ELSE -1
C34_HitRefreshesTtlWhenSet ==
    \A n \in 1..Len(hist) :
        /\ (updateTtl /\ hist[n].hit) => hist[n].after = hist[n].at + ttl
        /\ (updateTtl /\ \E j \in 1..(n - 1) : /\ hist[j].hash = hist[n].hash
                                               /\ hist[j].hit
                                               /\ hist[n].at < hist[j].at + ttl) =>
              hist[n].hit /\ hist[n].run.puts = <<>>
        /\ (~updateTtl /\ hist[n].hit) => hist[n].after = hist[n].before
        /\ (~updateTtl /\ LastWrite(n - 1) >= 0 /\ hist[n].at >= LastWrite(n - 1) + ttl) =>
              /\ ~hist[n].hit
              /\ Len(hist[n].run.execs) = 1
              /\ Len(hist[n].run.puts) = 1

\* the test's calls: written at 0, hit at 1, called again at 2 or later
C34_Witness ==
    /\ Len(hist) >= 3
    /\ hist[1].at = 0 /\ ~hist[1].hit
    /\ hist[2].at = 1 /\ hist[2].hit /\ hist[2].hash = hist[1].hash
    /\ hist[3].at >= hist[1].at + ttl /\ hist[3].hash = hist[1].hash
    /\ hist[3].hit = updateTtl

\* the log entries of one call: those from its "call" entry to the next
CallOf(i) == CHOOSE j \in 1..i : hist[j].ev = "call" /\ \A k \in (j + 1)..i : hist[k].ev # "call"
SameCall(i, j) == CallOf(i) = CallOf(j)
StepRank(ev) == CASE ev = "get" -> 1 [] ev = "fn" -> 2 [] ev = "put" -> 3 [] OTHER -> 0
FlowLogged == Len(hist) > 0 /\ hist[1].ev = "call"

\* C35: within one wrapper call the get script, the function and the put
\* script are invoked in this order and each at most once; an invocation that
\* raises, of a script, the function or a codec half, is the call's last, and
\* the call ends raising that error; and every call that has begun ends.
C35_StepsInOrderOnce ==
    \A i \in 1..Len(hist) :
        /\ \A j \in (i + 1)..Len(hist) :
              (SameCall(i, j) /\ StepRank(hist[i].ev) > 0 /\ StepRank(hist[j].ev) > 0) =>
                  StepRank(hist[i].ev) < StepRank(hist[j].ev)
        /\ (hist[i].err # "" /\ hist[i].ev # "end") =>
              IF i = Len(hist)
              THEN pc[1] = "done" /\ call[1].out = Raise(hist[i].err)
              ELSE /\ hist[i + 1].ev = "end"
                   /\ hist[i + 1].by = "raise"
                   /\ hist[i + 1].err = hist[i].err
        /\ (hist[i].ev = "end" /\ hist[i].by = "raise") =>
              hist[i - 1].err = hist[i].err
C35_EveryCallEnds == (pc[1] # "idle") ~> (pc[1] = "idle")
C35_InOrderOnceAndEnds == [][C35_StepsInOrderOnce']_vars /\ C35_EveryCallEnds

\* a call whose put script invocation failed after the get script and the
\* function had answered, and ended raising the store's error
C35_Witness ==
    /\ pc[1] = "idle"
    /\ Len(hist) = 6
    /\ hist[2].ev = "get" /\ hist[2].err = ""
    /\ hist[3].ev = "fn" /\ hist[3].err = ""
    /\ hist[5].ev = "put" /\ hist[5].err = "ConnectionError"
    /\ hist[6].ev = "end" /\ hist[6].err = "ConnectionError"

\* C36: a serialize half that raises on the function's result is the only
\* codec half the call invokes, the call invokes no put script, ends raising
\* that error and leaves the store as it found it; a deserialize half that
\* raises on the bytes of a hit is the only codec half the call invokes, the
\* call invokes neither the function nor the put script and ends raising
\* that error.
CodecFailure(i) == hist[i].ev \in {"dumps", "loads"} /\ hist[i].err # ""
C36_CodecErrorPropagates ==
    \A i \in 1..Len(hist) :
        CodecFailure(i) =>
            /\ SerializerOf(hist[CallOf(i)].by) # "" =>
                  hist[i].by = SerializerOf(hist[CallOf(i)].by)
            /\ \A j \in 1..Len(hist) :
                  (SameCall(i, j) /\ j # i) =>
                      /\ hist[j].ev \notin {"dumps", "loads", "put"}
                      /\ hist[i].ev = "loads" => hist[j].ev # "fn"
                      /\ hist[j].ev = "end" =>
                            /\ j = i + 1
                            /\ hist[j].by = "raise"
                            /\ hist[j].err = hist[i].err
                            /\ hist[i].ev = "dumps" =>
                                  /\ hist[j].order = hist[CallOf(i)].order
                                  /\ hist[j].hmap = hist[CallOf(i)].hmap

\* echo of a set failed in json.dumps; echo(0) was put, the default codec was
\* changed, and echo(0) hit bytes the new codec cannot decode
C36_Witness ==
    /\ pc[1] = "idle"
    /\ \E i \in 1..Len(hist) : hist[i].ev = "dumps" /\ hist[i].err = "TypeError"
    /\ \E i \in 1..Len(hist) : hist[i].ev = "loads" /\ hist[i].err = "DecodeError"
    /\ hist[Len(hist)].ev = "end" /\ hist[Len(hist)].by = "raise"

C38_InnermostScopeCounts ==
    [][/\ \A o \in StatsObjs : stats'[o] # stats[o] => o = ctxStats[1]
       /\ (pc[1] = "done" /\ pc'[1] # "done") =>
             IF statTokens[1] = <<>>
             THEN call[1].stats = 0
             ELSE /\ ctxStats[1] # 0
                  /\ call[1].stats = ctxStats[1]
                  /\ stats[ctxStats[1]].count = call[1].stats0.count + 1]_vars

\* the inner scope has been left with one call counted on its object, and
\* two calls are counted on the object of the enclosing scope, still open
C38_Witness ==
    /\ pc[1] = "idle"
    /\ statTokens[1] = <<0>> /\ ctxStats[1] = 1
    /\ stats[2].count = 1
    /\ stats[1].count = 2
    /\ Len(hist) = 3

\* C39: between the calls of the caller, every Stats object has
\* read = hit + miss, write <= exec <= count and hit + exec <= count, whatever
\* the modes the calls were made under and however they ended.
C39_CountersConsistent ==
    pc[1] \in {"idle", "raising"} =>
        \A o \in StatsObjs :
            /\ stats[o].read = stats[o].hit + stats[o].miss
            /\ stats[o].write <= stats[o].exec
            /\ stats[o].exec <= stats[o].count
            /\ stats[o].hit + stats[o].exec <= stats[o].count

\* two calls counted on one object under a mode that does not read: one
\* whose function raised, one whose result could not be written
C39_Witness ==
    /\ pc[1] = "raising"
    /\ Len(hist) = 2
    /\ stats[1] = [count |-> 2, read |-> 0, write |-> 0, exec |-> 1, miss |-> 0, hit |-> 0]
    /\ hist[1].out = Raise("ValueError")
    /\ hist[2].out = Raise("TypeError")

\* the mode a task observes by the scopes it has entered itself, given the
\* mode it started with
OwnMode(t, start) == IF scopes[t] = <<>> THEN start ELSE scopes[t][Len(scopes[t])].inner

\* C40: the created task starts with the mode its creator had at that
\* moment and, outside the scopes it enters itself, observes that mode for
\* the rest of its life, whatever scopes the creator leaves or enters
\* meanwhile; and the creator observes the mode of its own innermost scope,
\* the default outside them, whatever scopes the created task enters.
C40_ChildKeepsCreationMode ==
    /\ get_mode(1) = OwnMode(1, DefaultMode)
    /\ InCall(1) => \E i \in 0..Len(scopes[1]) :
                        call[1].mode = IF i = 0 THEN DefaultMode ELSE scopes[1][i].inner
    /\ Spawned =>
          /\ get_mode(2) = OwnMode(2, hist[1].mode)
          /\ InCall(2) /\ scopes[2] = <<>> => call[2].mode = hist[1].mode

\* created inside a scope its creator has left since, the task is inside a
\* call made under the mode of that scope; the creator is in a call of its
\* own under the default mode
C40_Witness ==
    /\ Spawned
    /\ hist[1].mode = Mode(FALSE, TRUE, FALSE)
    /\ tokens[1] = <<>> /\ pc[1] = "exec" /\ call[1].mode = DefaultMode
    /\ tokens[2] = <<>> /\ pc[2] = "exec" /\ call[2].mode = hist[1].mode

====
